---- MODULE Spec2Model ----
(***************************************************************************)
(* Event dispatch and session reconciliation of kommo_command:             *)
(* HandlerManager, IncomingLeadHandler, IncomingMessageHandler and the     *)
(* services they call.                                                      *)
(*                                                                          *)
(* Conventions.  An optional value is a sequence of length at most one:    *)
(* <<>> is Python's None (or an absent dict key), <<v>> is the value v.     *)
(* A Python str is a sequence of one-character strings.  An operation      *)
(* that may take several courses (an external call that returns or         *)
(* raises) is an operator from a world record to the SET of worlds it can  *)
(* leave behind; Bind chains such operators.                                *)
(***************************************************************************)
EXTENDS Integers, Sequences, FiniteSets, TLC

VARIABLES
    handlers,         \* HandlerManager.handlers: registration-ordered list
    default_handler,  \* HandlerManager.default_handler: <<>> or <<h>>
    kommo_service,    \* BaseHandler.kommo_service is not None
    love_bali_service,\* BaseHandler.love_bali_service is not None
    sessions,         \* Firestore collection 'sessions': session_id -> document
    leads,            \* Firestore collection 'leads': the number of documents
    rtdb,             \* realtime store: the event paths that hold a payload
    now,              \* wall clock, in hours
    last,             \* the most recent process_event call: its arguments and trace
    kill_now,         \* GracefulKiller.kill_now is set
    closed,           \* FirebaseAdminListener._closed is set
    kommo_closed,     \* KommoAPIService.close has been called
    firestore_closed, \* FirestoreService.close has been called
    listener_error,   \* listener_error[0] is not None
    event_lock,       \* run: event_lock, "free" or the thread that holds it
    event_queue,      \* run: event_queue
    events_queue,     \* FirebaseAdminListener.events: events_queue
    events_to_process,\* run: events_to_process, the part not yet dispatched
    mpc,              \* where the main thread is in run()
    lpc,              \* where the listener thread is in listener_thread / events()
    event,            \* listener_thread: the event the generator has yielded
    emitted,          \* the number of events the realtime store has reported
    appended,         \* the events the listener thread has appended, in order
    dispatched,       \* the events passed to process_event, in order
    in_progress,      \* the process_event calls begun and not yet returned
    joined,           \* thread.join has returned: was the thread alive then
    call,             \* a function called on its own: its name and arguments
    result            \* what the call returned, <<>> while it has not

\* The state of the threads of run()
appvars == <<kill_now, closed, kommo_closed, firestore_closed, listener_error,
             event_lock, event_queue, events_queue, events_to_process, mpc, lpc,
             event, emitted, appended, dispatched, in_progress, joined>>

\* A function called on its own
purevars == <<call, result>>

vars == <<handlers, default_handler, kommo_service, love_bali_service,
          sessions, leads, rtdb, now, last, appvars, purevars>>

----------------------------------------------------------------------------
(* Bounds of the model *)

MaxHandlers == 3   \* registrations held by the manager at once
MaxSessions == 2   \* session documents ever created
MaxLeads == 2      \* Lead documents ever written
MaxNow == 48       \* last hour of the clock
TickHours == 24    \* hours the clock advances at a time
MaxFaults == 1     \* external calls that fail while one event is processed
MaxEvents == 3     \* events the realtime store reports

----------------------------------------------------------------------------
(* Generic helpers *)

None == <<>>
Some(x) == <<x>>
IsSome(o) == Len(o) = 1
Val(o) == o[1]

Bind(S, F(_)) == UNION { F(x) : x \in S }

Range(s) == { s[i] : i \in 1..Len(s) }

RECURSIVE RemoveFirst(_, _)
RemoveFirst(s, x) ==
    IF s = <<>> THEN <<>>
    ELSE IF Head(s) = x THEN Tail(s)
    ELSE <<Head(s)>> \o RemoveFirst(Tail(s), x)

----------------------------------------------------------------------------
(* Python str operations on character sequences *)

LowerChars == <<"a","b","c","d","e","f","g","h","i","j","k","l","m",
                "n","o","p","q","r","s","t","u","v","w","x","y","z">>
UpperChars == <<"A","B","C","D","E","F","G","H","I","J","K","L","M",
                "N","O","P","Q","R","S","T","U","V","W","X","Y","Z">>
DigitChars == <<"0","1","2","3","4","5","6","7","8","9">>

UpperChar(c) ==
    IF \E i \in 1..Len(LowerChars) : LowerChars[i] = c
    THEN UpperChars[CHOOSE i \in 1..Len(LowerChars) : LowerChars[i] = c]
    ELSE c

StrUpper(s) == [i \in 1..Len(s) |-> UpperChar(s[i])]

IsSpace(c) == c \in {" ", "\t", "\n"}

RECURSIVE LStrip(_)
LStrip(s) == IF s # <<>> /\ IsSpace(Head(s)) THEN LStrip(Tail(s)) ELSE s

RECURSIVE RStrip(_)
RStrip(s) ==
    IF s # <<>> /\ IsSpace(s[Len(s)]) THEN RStrip(SubSeq(s, 1, Len(s) - 1)) ELSE s

StrStrip(s) == RStrip(LStrip(s))

StrRemove(s, c) == SelectSeq(s, LAMBDA x : x # c)

----------------------------------------------------------------------------
(* types.py *)

MAIN_MENU == "Main Menu"
LANG_SELECT == "Lang Select"
LOVE_BALI == "Love Bali"
SIGAPURA == "SigaPura"
CHAT_OPERATOR == "Chat Operator"

LANG_SELECT_BOT_ID == "LANG_SELECT_BOT_ID"
REPLY_CUSTOM_BOT_ID == "REPLY_CUSTOM_BOT_ID"
MAIN_MENU_EN_BOT_ID == "MAIN_MENU_EN_BOT_ID"
MAIN_MENU_ID_BOT_ID == "MAIN_MENU_ID_BOT_ID"

\* AppLanguage values, as str
ENGLISH == <<"E","N">>
INDONESIAN == <<"I","D">>

\* AppState values
INITIAL == "INITIAL"
AWAITING_PASSPORT_NUMBER == "AWAITING_PASSPORT_NUMBER"

\* The command labels as str: [cmd.value for cmd in Command]
COMMAND_LIST ==
    { <<"M","a","i","n"," ","M","e","n","u">>,
      <<"L","a","n","g"," ","S","e","l","e","c","t">>,
      <<"L","o","v","e"," ","B","a","l","i">>,
      <<"S","i","g","a","P","u","r","a">>,
      <<"C","h","a","t"," ","O","p","e","r","a","t","o","r">> }

\* The two language selector messages; the flag emoji is one character here.
SelectorBahasa == <<"[flag-ID]"," ","B","a","h","a","s","a">>
SelectorEnglish == <<"[flag-GB]"," ","E","n","g","l","i","s","h">>

----------------------------------------------------------------------------
(* Handlers and event payloads *)

MessageHandler == "IncomingMessageHandler"
LeadHandler == "IncomingLeadHandler"
Stubs == {"StubA", "StubB", "StubC"}

\* An event payload.  kind: "null" (None), "str" (a non-dict value) or
\* "dict"; the other fields are the dict's keys.  other: the dict holds some
\* key besides the four the handlers read.
Payload(kind, entity_id, messages, language, state, other) ==
    [kind |-> kind, entity_id |-> entity_id, messages |-> messages,
     language |-> language, state |-> state, other |-> other]

AbsentEntity == [k |-> "absent", v |-> 0]
IntEntity(n) == [k |-> "int", v |-> n]
StrEntity(n) == [k |-> "str", v |-> n]     \* a str that int() parses to n
BadEntity == [k |-> "bad", v |-> 0]        \* a non-empty str int() rejects

AbsentMessages == [k |-> "absent", v |-> <<>>]
StrMessages(s) == [k |-> "str", v |-> s]
NumMessages == [k |-> "num", v |-> <<>>]   \* a non-zero number: truthy, no .strip

NullPayload == Payload("null", AbsentEntity, AbsentMessages, None, None, FALSE)
StrPayload == Payload("str", AbsentEntity, AbsentMessages, None, None, FALSE)
EmptyDict == Payload("dict", AbsentEntity, AbsentMessages, None, None, FALSE)
\* A falsy value that is neither None nor a dict: 0, "" or []
ZeroPayload == Payload("zero", AbsentEntity, AbsentMessages, None, None, FALSE)

\* Python truthiness of the payload: None, "" and {} are falsy
IsDict(data) == data.kind = "dict"
IsEmptyDict(data) ==
    /\ data.kind = "dict"
    /\ data.entity_id.k = "absent" /\ data.messages.k = "absent"
    /\ data.language = None /\ data.state = None /\ ~data.other
Truthy(data) == data.kind = "str" \/ (data.kind = "dict" /\ ~IsEmptyDict(data))

----------------------------------------------------------------------------
(* The trace of one process_event call: the calls made, in order *)

Log(w, c) == [w EXCEPT !.calls = Append(@, c)]

Raise(w) == [w EXCEPT !.exc = TRUE]

\* The failing courses S of an external call made in world w
Faulty(w, S) ==
    IF w.faults < MaxFaults THEN { [x EXCEPT !.faults = @ + 1] : x \in S } ELSE {}

\* What a stub handler does in one event: o.can[h], o.handle[h]
CanOutcomes == {"true", "false", "raise"}
HandleOutcomes == {"ok", "raise"}
Oracles == [can : [Stubs -> CanOutcomes], handle : [Stubs -> HandleOutcomes]]
DefaultOracle == [can |-> [h \in Stubs |-> "false"], handle |-> [h \in Stubs |-> "ok"]]

\* The oracles that differ in what a dispatch over hs with default dh can
\* observe: can_handle of a registered stub (the default's too, were it
\* consulted), handle of a stub that runs
RelevantOracles(hs, dh) ==
    { o \in Oracles :
        \A h \in Stubs :
          /\ h \notin Range(hs) => o.can[h] = "false"
          /\ (h \notin Range(hs) \/ (Some(h) # dh /\ o.can[h] # "true"))
                => o.handle[h] = "ok" }

----------------------------------------------------------------------------
(* models/session.py *)

\* SessionCreateRequest / SessionUpdateRequest
CreateRequest(entity_id, language, command, expires_in_hours) ==
    [entity_id |-> entity_id, language |-> language, command |-> command,
     expires_in_hours |-> expires_in_hours]

UpdateRequest(language, command, is_active, expires_in_hours) ==
    [language |-> language, command |-> command, is_active |-> is_active,
     expires_in_hours |-> expires_in_hours]

\* SessionCreateRequest.to_session_model, at time t
to_session_model(req, t) ==
    [entity_id |-> req.entity_id,
     language |-> req.language,
     command |-> req.command,
     created_at |-> t,
     updated_at |-> t,
     expires_at |-> IF IsSome(req.expires_in_hours) /\ Val(req.expires_in_hours) # 0
                    THEN Some(t + Val(req.expires_in_hours)) ELSE None,
     is_active |-> TRUE]

\* SessionModel.is_expired, at time t
is_expired(session, t) ==
    IF session.expires_at = None THEN FALSE ELSE t > Val(session.expires_at)

\* SessionModel.set_language, at time t
set_language(session, language, t) ==
    [session EXCEPT !.language = Some(language), !.updated_at = t]

\* A session object in memory: the document and its session_id
SessionObject(sid, doc) == [session_id |-> sid, doc |-> doc]

----------------------------------------------------------------------------
(* services/firestore_service.py.  Every operation may raise (the client  *)
(* fails); a world with exc set is one in which the call has raised.       *)

\* The stored sessions that are inactive
Inactive(ss) == { sid \in DOMAIN ss : ~ss[sid].is_active }

\* cleanup_expired_sessions, the query: expires_at <= current_time and
\* is_active == True
Cleanable(ss, t) ==
    { sid \in DOMAIN ss :
        /\ ss[sid].expires_at # None
        /\ Val(ss[sid].expires_at) <= t
        /\ ss[sid].is_active }

\* cleanup_expired_sessions, the batch: is_active False, updated_at
\* current_time
CleanedSessions(ss, t) ==
    [sid \in DOMAIN ss |->
        IF sid \in Cleanable(ss, t)
        THEN [ss[sid] EXCEPT !.is_active = FALSE, !.updated_at = t]
        ELSE ss[sid]]

\* cleanup_expired_sessions run by another client of the document database
\* while a handler is at work; dead collects the sessions that have been
\* stored inactive
cleanup_expired_sessions(w) ==
    Log([w EXCEPT !.sessions = CleanedSessions(w.sessions, now),
                  !.dead = @ \cup Cleanable(w.sessions, now)],
        [op |-> "cleanup_expired_sessions", h |-> "cleanup",
         cleaned |-> Cleanable(w.sessions, now)])

\* What the store can be when a handler writes after it has read: as it
\* was, or cleaned up in between
Concurrently(w) ==
    {w} \cup (IF Cleanable(w.sessions, now) # {} THEN {cleanup_expired_sessions(w)}
              ELSE {})

FreeSessionIds(w) == (1..MaxSessions) \ DOMAIN w.sessions

PutSession(w, sid, doc) ==
    [w EXCEPT !.sessions = [x \in DOMAIN w.sessions \cup {sid} |->
                              IF x = sid THEN doc ELSE w.sessions[x]]]

create_session(w, h, req) ==
    Faulty(w, { Raise(Log(w, [op |-> "create_session", h |-> h, ok |-> FALSE,
                              session_id |-> 0, doc |-> to_session_model(req, now)])) })
    \cup
    { [Log(PutSession(w, sid, to_session_model(req, now)),
           [op |-> "create_session", h |-> h, ok |-> TRUE,
            session_id |-> sid, doc |-> to_session_model(req, now)])
        EXCEPT !.ret = Some(SessionObject(sid, to_session_model(req, now)))]
      : sid \in FreeSessionIds(w) }

\* The fields update_session writes: language, is_active, expires_at and
\* updated_at.  (metadata is not modelled; command is not among them.)
ApplyUpdate(doc, req) ==
    [doc EXCEPT
       !.language = IF req.language # None THEN req.language ELSE @,
       !.is_active = IF req.is_active # None THEN Val(req.is_active) ELSE @,
       !.expires_at = IF req.expires_in_hours # None
                      THEN Some(now + Val(req.expires_in_hours)) ELSE @,
       !.updated_at = now]

update_session(w, h, sid, req) ==
    Faulty(w, { Raise(Log(w, [op |-> "update_session", h |-> h, session_id |-> sid,
                              req |-> req, res |-> "raise"])) })
    \cup
    ( IF sid \notin DOMAIN w.sessions
      THEN { [Log(w, [op |-> "update_session", h |-> h, session_id |-> sid,
                      req |-> req, res |-> "missing"])
               EXCEPT !.ret = None] }
      ELSE { [Log(PutSession(w, sid, ApplyUpdate(w.sessions[sid], req)),
                  [op |-> "update_session", h |-> h, session_id |-> sid,
                   req |-> req, res |-> "updated"])
               EXCEPT !.ret = Some(SessionObject(sid, ApplyUpdate(w.sessions[sid], req)))] } )

\* The documents the query of get_sessions_by_entity_id streams, in
\* document-id order
RECURSIVE SortedIds(_)
SortedIds(S) ==
    IF S = {} THEN <<>>
    ELSE LET m == CHOOSE x \in S : \A y \in S : x <= y
         IN <<m>> \o SortedIds(S \ {m})

QueryByEntity(w, entity_id, active_only) ==
    SortedIds({ sid \in DOMAIN w.sessions :
                  /\ w.sessions[sid].entity_id = Some(entity_id)
                  /\ (active_only => w.sessions[sid].is_active) })

\* The loop that passes expired sessions by and writes nothing
RECURSIVE CollectSessions_no_deactivation(_, _, _, _)
CollectSessions_no_deactivation(w, h, ids, acc) ==
    IF ids = <<>> THEN { [w EXCEPT !.ret = acc] }
    ELSE LET sid == Head(ids)
             session == w.sessions[sid]
         IN IF ~is_expired(session, now)
            THEN CollectSessions_no_deactivation(
                   w, h, Tail(ids), Append(acc, SessionObject(sid, session)))
            ELSE CollectSessions_no_deactivation(w, h, Tail(ids), acc)

\* The loop of get_sessions_by_entity_id over the streamed documents: an
\* unexpired session is collected, an expired active one is deactivated
\* through update_session; an exception ends the loop.
RECURSIVE CollectSessions(_, _, _, _)
CollectSessions(w, h, ids, acc) ==
    IF ids = <<>> THEN { [w EXCEPT !.ret = acc] }
    ELSE LET sid == Head(ids)
             session == w.sessions[sid]
         IN IF ~is_expired(session, now)
            THEN CollectSessions(w, h, Tail(ids), Append(acc, SessionObject(sid, session)))
            ELSE IF session.is_active
            THEN Bind(update_session(w, h, sid, UpdateRequest(None, None, Some(FALSE), None)),
                      LAMBDA x : IF x.exc THEN {x}
                                 ELSE CollectSessions(x, h, Tail(ids), acc))
            ELSE CollectSessions(w, h, Tail(ids), acc)

get_sessions_by_entity_id(w, h, entity_id, active_only) ==
    Faulty(w, { Raise(w) }) \cup
    CollectSessions(w, h, QueryByEntity(w, entity_id, active_only), <<>>)

\* The first session streamed, whatever its updated_at
LatestOf_first_streamed(objs) == objs[1]

\* max(sessions, key=updated_at): the first of the greatest
LatestOf(objs) ==
    objs[CHOOSE i \in 1..Len(objs) :
           /\ \A j \in 1..Len(objs) : objs[j].doc.updated_at <= objs[i].doc.updated_at
           /\ \A j \in 1..(i - 1) : objs[j].doc.updated_at < objs[i].doc.updated_at]

get_latest_session_by_entity_id(w, h, entity_id) ==
    { IF x.exc
      THEN Log(x, [op |-> "get_latest_session_by_entity_id", h |-> h,
                   entity_id |-> entity_id, ok |-> FALSE, found |-> None])
      ELSE LET r == IF x.ret = <<>> THEN None ELSE Some(LatestOf(x.ret))
           IN [Log(x, [op |-> "get_latest_session_by_entity_id", h |-> h,
                       entity_id |-> entity_id, ok |-> TRUE, found |-> r])
                EXCEPT !.ret = r]
      : x \in get_sessions_by_entity_id(w, h, entity_id, TRUE) }

\* FirestoreService defines no get_active_session_for_entity: the attribute
\* lookup raises AttributeError.  stored: whether the store holds an active,
\* unexpired session of the entity at the time of the call.
HasActiveSession(w, entity_id) ==
    \E sid \in DOMAIN w.sessions :
        /\ w.sessions[sid].entity_id = Some(entity_id)
        /\ w.sessions[sid].is_active
        /\ ~is_expired(w.sessions[sid], now)

get_active_session_for_entity(w, h, entity_id) ==
    { Raise(Log(w, [op |-> "get_active_session_for_entity", h |-> h,
                    entity_id |-> entity_id, ok |-> FALSE,
                    stored |-> HasActiveSession(w, entity_id)])) }

----------------------------------------------------------------------------
(* External services: the CRM client, the passport lookup client and the   *)
(* realtime store.  Each call returns or raises.                            *)

\* KommoAPIService.launch_salesbot
launch_salesbot(w, h, bot_id, entity_id) ==
    { Log(w, [op |-> "launch_salesbot", h |-> h, bot_id |-> bot_id,
              entity_id |-> entity_id, ok |-> TRUE]) }
    \cup
    Faulty(w, { Raise(Log(w, [op |-> "launch_salesbot", h |-> h, bot_id |-> bot_id,
                              entity_id |-> entity_id, ok |-> FALSE])) })

\* KommoAPIService.update_lead_custom_fields: the parsed response (a dict,
\* possibly empty, so truthy or falsy) or an exception.  text: the value
\* written to the custom field.
update_lead_custom_fields(w, h, entity_id, text) ==
    { [Log(w, [op |-> "update_lead_custom_fields", h |-> h, entity_id |-> entity_id,
               text |-> text, res |-> "truthy"]) EXCEPT !.ret = TRUE] }
    \cup
    Faulty(w,
      { [Log(w, [op |-> "update_lead_custom_fields", h |-> h, entity_id |-> entity_id,
                 text |-> text, res |-> "falsy"]) EXCEPT !.ret = FALSE],
        Raise(Log(w, [op |-> "update_lead_custom_fields", h |-> h, entity_id |-> entity_id,
                      text |-> text, res |-> "raise"])) })

\* LoveBaliAPIService.single_scan_passport: a result dict, a
\* LoveBaliAPIError with a status code (0: none), or a result that is no dict
ScanOutcomes == {"found", "api401", "api404", "api500", "api0", "other"}

single_scan_passport(w, h, passport_number) ==
    { [Log(w, [op |-> "single_scan_passport", h |-> h,
               passport_number |-> passport_number, res |-> r])
        EXCEPT !.ret = r] : r \in ScanOutcomes }

\* FirebaseAdminListener.delete_data: removes the payload at the path; an
\* absent path is no error
delete_data(w, path) ==
    { [w EXCEPT !.rtdb = @ \ {path}, !.ret = TRUE] }
    \cup Faulty(w, { [w EXCEPT !.ret = FALSE], Raise(w) })

----------------------------------------------------------------------------
(* handlers/base_handler.py *)

\* BaseHandler.delete_realtime_data: True iff delete_data returned True
delete_realtime_data(w, h, path) ==
    { [Log(x, [op |-> "delete_realtime_data", h |-> h, path |-> path,
               ok |-> (~x.exc /\ x.ret)])
        EXCEPT !.exc = FALSE, !.ret = (~x.exc /\ x.ret)]
      : x \in delete_data(w, path) }

\* BaseHandler.save_to_firestore on collection 'sessions': a whole-document
\* set of the session; False when the write raises
save_session(w, h, sid, doc) ==
    { [Log(PutSession(w, sid, doc),
           [op |-> "save_to_firestore", h |-> h, collection |-> "sessions",
            doc |-> doc, ok |-> TRUE]) EXCEPT !.ret = TRUE] }
    \cup
    Faulty(w, { [Log(w, [op |-> "save_to_firestore", h |-> h, collection |-> "sessions",
                         doc |-> doc, ok |-> FALSE]) EXCEPT !.ret = FALSE] })

\* BaseHandler.save_to_firestore on collection 'leads'.  Each Lead is written
\* once under a fresh lead_id and never read back: the collection is kept as
\* a count, the document written is in the trace.
save_lead(w, h, doc) ==
    { [Log([w EXCEPT !.leads = @ + 1],
           [op |-> "save_to_firestore", h |-> h, collection |-> "leads",
            doc |-> doc, ok |-> TRUE]) EXCEPT !.ret = TRUE] }
    \cup
    Faulty(w, { [Log(w, [op |-> "save_to_firestore", h |-> h, collection |-> "leads",
                         doc |-> doc, ok |-> FALSE]) EXCEPT !.ret = FALSE] })

\* The handlers' reading of the payload: entity_id coerced to int (None when
\* absent or unparsable)
EntityIdOf(data) ==
    CASE data.entity_id.k = "absent" -> None
      [] data.entity_id.k = "int" -> Some(data.entity_id.v)
      [] data.entity_id.k = "str" -> Some(data.entity_id.v)
      [] data.entity_id.k = "bad" -> None

EntityTruthy(e) == IsSome(e) /\ Val(e) # 0

\* event_data.get('messages', '').strip() if event_data.get('messages') else ''
MessagesRaises(data) == data.messages.k = "num"

MessagesOf(data) ==
    IF data.messages.k = "str" /\ data.messages.v # <<>>
    THEN StrStrip(data.messages.v) ELSE <<>>

----------------------------------------------------------------------------
(* messages.py *)

PASSPORT_PROMPT == "passport_prompt"
PASSPORT_INVALID == "passport_invalid"
PASSPORT_ERROR == "passport_error"
PASSPORT_NOT_FOUND == "passport_not_found"
PASSPORT_FOUND == "passport_found"

\* _MESSAGES: the languages registered for each key
Catalog ==
    [key \in {PASSPORT_PROMPT, PASSPORT_INVALID, PASSPORT_ERROR,
              PASSPORT_NOT_FOUND, PASSPORT_FOUND} |-> {ENGLISH, INDONESIAN}]

\* _normalize_language that compares the value as it is
normalize_language_exact(language) ==
    IF IsSome(language) /\ Val(language) \in {ENGLISH, INDONESIAN}
    THEN Val(language)
    ELSE ENGLISH

\* _normalize_language; language is None or a str
normalize_language(language) ==
    IF IsSome(language) /\ StrUpper(StrStrip(Val(language))) \in {ENGLISH, INDONESIAN}
    THEN StrUpper(StrStrip(Val(language)))
    ELSE ENGLISH

\* A catalog text: the key, the language it is in and whether the
\* placeholders have been substituted
Text(key, lang, formatted) ==
    [kind |-> "catalog", key |-> key, lang |-> lang, formatted |-> formatted,
     raw |-> <<>>]

\* A text that is no catalog message: the str itself
RawText(m) ==
    [kind |-> "raw", key |-> "", lang |-> <<>>, formatted |-> FALSE, raw |-> m]

\* get_message, for a registered key
get_message(key, language) ==
    IF normalize_language(language) \in Catalog[key]
    THEN Text(key, normalize_language(language), FALSE)
    ELSE IF ENGLISH \in Catalog[key]
    THEN Text(key, ENGLISH, FALSE)
    ELSE Text(key, CHOOSE l \in Catalog[key] : TRUE, FALSE)

\* What a call leaves: the value it returns, or an exception
Returned(v) == [raised |-> FALSE, value |-> v]
Raised == [raised |-> TRUE, value |-> <<>>]

\* get_message, lines 77-91: KeyError for a key _MESSAGES does not hold
get_message_or_raise(key, language) ==
    IF key \notin DOMAIN Catalog THEN Raised
    ELSE Returned(get_message(key, language))

----------------------------------------------------------------------------
(* handlers/incoming_message_handler.py *)

PassportMinLen == 6
PassportMaxLen == 12

\* PASSPORT_ALLOWED_PATTERN.match: ^[A-Z0-9]{6,12}$, where $ also matches
\* before one trailing newline
AllowedChars == Range(UpperChars) \cup Range(DigitChars)

FullMatch(s) ==
    /\ Len(s) >= PassportMinLen /\ Len(s) <= PassportMaxLen
    /\ \A i \in 1..Len(s) : s[i] \in AllowedChars

PatternMatch(s) ==
    \/ FullMatch(s)
    \/ (s # <<>> /\ s[Len(s)] = "\n" /\ FullMatch(SubSeq(s, 1, Len(s) - 1)))

\* normalize_passport_number: None or a non-empty str
normalize_passport_number(user_message) ==
    IF user_message = <<>> THEN None
    ELSE LET normalized ==
                 StrRemove(StrRemove(StrUpper(StrStrip(user_message)), " "), "-")
         IN IF normalized = <<>> THEN None ELSE Some(normalized)

\* is_valid_passport_number(candidate, normalized=True)
is_valid_passport_number(candidate) ==
    IF candidate = <<>> THEN FALSE ELSE PatternMatch(candidate)

\* is_valid_passport_number(user_message), normalized=False
is_valid_passport_input(user_message) ==
    LET candidate == normalize_passport_number(user_message)
    IN IF candidate = None THEN FALSE ELSE PatternMatch(Val(candidate))

\* A try block whose except clause logs and goes on: the exception is dropped
Caught(W) == { [x EXCEPT !.exc = FALSE] : x \in W }

\* send_message with the launch inside the try of the update: an update that
\* raises is followed by no launch
send_message_one_try(w, h, entity_id, message) ==
    IF ~kommo_service THEN {w}
    ELSE Bind(update_lead_custom_fields(w, h, entity_id, message),
              LAMBDA x : IF x.exc THEN Caught({x})
                         ELSE Caught(launch_salesbot(x, h, REPLY_CUSTOM_BOT_ID,
                                                     entity_id)))

\* send_message: the custom-field update, then the reply-bot launch, each in
\* its own try
send_message(w, h, entity_id, message) ==
    IF ~kommo_service THEN {w}
    ELSE Bind(Caught(update_lead_custom_fields(w, h, entity_id, message)),
              LAMBDA x : Caught(launch_salesbot(x, h, REPLY_CUSTOM_BOT_ID, entity_id)))

\* show_main_menu
show_main_menu(w, h, entity_id, language) ==
    IF ~kommo_service THEN {w}
    ELSE Caught(launch_salesbot(
                  w, h,
                  IF language = Some(ENGLISH) THEN MAIN_MENU_EN_BOT_ID
                                              ELSE MAIN_MENU_ID_BOT_ID,
                  entity_id))

\* ScanResponse with the text of the exception for a failed lookup
ScanResponse_exception_text(res, user_lang) ==
    IF res = "found"
    THEN [get_message(PASSPORT_FOUND, user_lang) EXCEPT !.formatted = TRUE]
    ELSE RawText(<<"e", "r", "r", "o", "r", ":", " ">> \o <<res>>)

\* Every failure of the lookup answered with the generic error message
ScanResponse_status_ignored(res, user_lang) ==
    IF res = "found"
    THEN [get_message(PASSPORT_FOUND, user_lang) EXCEPT !.formatted = TRUE]
    ELSE get_message(PASSPORT_ERROR, user_lang)

\* The message the handler answers a scan outcome with
ScanResponse(res, user_lang) ==
    CASE res = "found" ->
           [get_message(PASSPORT_FOUND, user_lang) EXCEPT !.formatted = TRUE]
      [] res \in {"api401", "api404"} -> get_message(PASSPORT_NOT_FOUND, user_lang)
      [] OTHER -> get_message(PASSPORT_ERROR, user_lang)

\* The main menu shown for every found passport, no session asked for
AdvanceToMainMenu_without_session(w, h, entity_id, user_lang, session, isFound) ==
    IF isFound THEN show_main_menu(w, h, entity_id, user_lang) ELSE {w}

\* handle, lines 208-219: with a session and a found passport, the session
\* update and, when it returned a session, the main menu
AdvanceToMainMenu(w, h, entity_id, user_lang, session, isFound) ==
    IF session # None /\ isFound
    THEN Bind(update_session(w, h, Val(session).session_id,
                             UpdateRequest(None, Some(MAIN_MENU), None, None)),
              LAMBDA x : IF x.exc \/ x.ret = None THEN {x}
                         ELSE show_main_menu(x, h, entity_id, user_lang))
    ELSE {w}

\* AwaitingPassportNumber with the lookup moved in front of the validation
AwaitingPassportNumber_scan_first(w, h, entity_id, user_messages, user_lang, session) ==
    Bind(single_scan_passport(w, h, user_messages),
         LAMBDA x : send_message(x, h, entity_id,
                                 get_message(PASSPORT_INVALID, user_lang)))

\* handle, lines 118-219: state AWAITING_PASSPORT_NUMBER
AwaitingPassportNumber(w, h, entity_id, user_messages, user_lang, session) ==
    LET normalized_passport == normalize_passport_number(user_messages)
    IN IF normalized_passport = None
          \/ ~is_valid_passport_number(Val(normalized_passport))
       THEN send_message(w, h, entity_id, get_message(PASSPORT_INVALID, user_lang))
       ELSE IF ~love_bali_service THEN {w}
       ELSE Bind(single_scan_passport(w, h, Val(normalized_passport)),
                 LAMBDA x :
                   Bind(send_message(x, h, entity_id, ScanResponse(x.ret, user_lang)),
                        LAMBDA y : AdvanceToMainMenu(y, h, entity_id, user_lang,
                                                     session, x.ret = "found")))

\* MessageWithEntity with state INITIAL falling through to the passport
\* processing after the prompt
MessageWithEntity_initial_falls_through(w, h, path, data, entity_id, session) ==
    LET user_messages == MessagesOf(data)
        user_lang == IF data.language = None THEN Some(ENGLISH) ELSE data.language
    IN Bind(Bind(send_message(w, h, entity_id,
                              get_message(PASSPORT_PROMPT, user_lang)),
                 LAMBDA x : AwaitingPassportNumber(
                              x, h, entity_id, user_messages, user_lang, session)),
            LAMBDA x : IF x.exc THEN {x} ELSE delete_realtime_data(x, h, path))

\* handle, lines 96-236: the branch taken with a truthy entity_id
MessageWithEntity(w, h, path, data, entity_id, session) ==
    LET user_messages == MessagesOf(data)
        user_lang == IF data.language = None THEN Some(ENGLISH) ELSE data.language
        app_state == IF data.state = None THEN INITIAL ELSE Val(data.state)
        prompted ==
            IF app_state = INITIAL
            THEN send_message(w, h, entity_id, get_message(PASSPORT_PROMPT, user_lang))
            ELSE {w}
        processed ==
            IF app_state = AWAITING_PASSPORT_NUMBER
            THEN Bind(prompted, LAMBDA x : AwaitingPassportNumber(
                                  x, h, entity_id, user_messages, user_lang, session))
            ELSE prompted
    IN Bind(processed,
            LAMBDA x : IF x.exc THEN {x} ELSE delete_realtime_data(x, h, path))

\* IncomingMessageHandler.can_handle
IncomingMessageHandler_can_handle(path, data) ==
    IF ~Truthy(data) THEN FALSE
    ELSE IF ~IsDict(data) THEN FALSE
    ELSE TRUE

\* An except clause that logs the exception and returns
handle_except_returns(w) == [w EXCEPT !.exc = FALSE]

\* handle, lines 241-250: the outer except clause logs the exception and
\* raises it again
handle_except(w) == w

\* IncomingMessageHandler.handle.  A world with exc set: handle has raised.
IncomingMessageHandler_handle(w, path, data) ==
    LET h == MessageHandler
        entity_id == EntityIdOf(data)
        try ==
            IF data.kind = "null" THEN {w}
            ELSE IF ~IsDict(data) THEN {w}
            ELSE IF MessagesRaises(data) THEN {Raise(w)}
            ELSE IF ~EntityTruthy(entity_id) THEN {w}
            ELSE Bind(get_active_session_for_entity(w, h, Val(entity_id)),
                      LAMBDA x : MessageWithEntity(
                                   [x EXCEPT !.exc = FALSE], h, path, data,
                                   Val(entity_id), IF x.exc THEN None ELSE x.ret))
    IN { IF x.exc THEN handle_except(x) ELSE x : x \in try }

----------------------------------------------------------------------------
(* handlers/incoming_lead_handler.py *)

SessionHours == 24

\* LeadModel.metadata, as far as the handler annotates it
EmptyMeta ==
    [session_id |-> None, session_language |-> None, new_session_id |-> None,
     salesbot_launched |-> "unset", salesbot_error |-> None,
     detected_language |-> None]

\* The Lead document written by the audit write (lead.mark_as_processed()
\* precedes it).  The data field, a verbatim copy of the payload that no
\* operation reads, is left out.
LeadDoc(path, meta) == [source_path |-> path, processed |-> TRUE, metadata |-> meta]

\* IncomingLeadHandler.detect_language
detect_language(message) ==
    IF message = SelectorBahasa THEN Some("ID")
    ELSE IF message = SelectorEnglish THEN Some("EN")
    ELSE None

\* IncomingLeadHandler.is_command
is_command(user_message) == user_message \in COMMAND_LIST

\* str(e) of the exception the last call of w raised: a text that names the
\* call
str_e(w) == Some(w.calls[Len(w.calls)].op)

\* The exception of the bootstrap left to propagate
BootstrapFailed_propagates(w) == w

\* handle, lines 178-189: the except clause of the bootstrap
BootstrapFailed(w) ==
    [w EXCEPT !.exc = FALSE, !.meta.salesbot_launched = "false",
              !.meta.salesbot_error = str_e(w)]

\* The session created whatever became of the launch
Bootstrap_create_regardless(w, h, entity_id) ==
    IF ~kommo_service THEN {w}
    ELSE Bind(launch_salesbot(w, h, LANG_SELECT_BOT_ID, entity_id),
              LAMBDA x :
                { IF y.exc THEN BootstrapFailed(y)
                  ELSE [y EXCEPT !.meta.new_session_id = Some(Val(y.ret).session_id)]
                  : y \in create_session(
                            [x EXCEPT !.exc = FALSE], h,
                            CreateRequest(Some(entity_id), None,
                                          Some(MAIN_MENU), Some(SessionHours))) })

\* The session created first, the bot launched after
Bootstrap_create_before_launch(w, h, entity_id) ==
    IF ~kommo_service THEN {w}
    ELSE Bind(create_session(w, h, CreateRequest(Some(entity_id), None,
                                                 Some(MAIN_MENU), Some(SessionHours))),
              LAMBDA y :
                IF y.exc THEN { BootstrapFailed(y) }
                ELSE { IF x.exc THEN BootstrapFailed(x)
                       ELSE [x EXCEPT !.meta.new_session_id = Some(Val(y.ret).session_id)]
                       : x \in launch_salesbot(y, h, LANG_SELECT_BOT_ID, entity_id) })

\* handle, lines 128-194: no session found
Bootstrap(w, h, entity_id) ==
    IF ~kommo_service THEN {w}
    ELSE Bind(launch_salesbot(w, h, LANG_SELECT_BOT_ID, entity_id),
              LAMBDA x :
                IF x.exc THEN { BootstrapFailed(x) }
                ELSE { IF y.exc THEN BootstrapFailed(y)
                       ELSE [y EXCEPT !.meta.new_session_id = Some(Val(y.ret).session_id)]
                       : y \in create_session(
                                 x, h, CreateRequest(Some(entity_id), None,
                                                     Some(MAIN_MENU), Some(SessionHours))) })

\* A lookup that raised taken for a lookup that found nothing
SessionLookup_bootstrap_on_error(w, h, entity_id) ==
    Bind(get_latest_session_by_entity_id(w, h, entity_id),
         LAMBDA x :
           IF ~x.exc /\ x.ret # None
           THEN { [x EXCEPT !.meta.session_id = Some(Val(x.ret).session_id),
                            !.meta.session_language = Val(x.ret).doc.language] }
           ELSE { [y EXCEPT !.ret = None]
                  : y \in Bootstrap([x EXCEPT !.exc = FALSE], h, entity_id) })

\* handle, lines 110-201: the session of the entity; ret is the session or None
SessionLookup(w, h, entity_id) ==
    Bind(get_latest_session_by_entity_id(w, h, entity_id),
         LAMBDA x :
           IF x.exc THEN { [x EXCEPT !.exc = FALSE, !.ret = None] }
           ELSE IF x.ret # None
           THEN { [x EXCEPT !.meta.session_id = Some(Val(x.ret).session_id),
                            !.meta.session_language = Val(x.ret).doc.language] }
           ELSE { [y EXCEPT !.ret = None] : y \in Bootstrap(x, h, entity_id) })

\* The language set on the object in memory and never written
DetectLanguage_no_persist(w, h, messages, session) ==
    IF messages \in {SelectorBahasa, SelectorEnglish} /\ detect_language(messages) # None
    THEN { [w EXCEPT !.meta.detected_language = detect_language(messages)] }
    ELSE {w}

\* handle, lines 207-246: a session without language
DetectLanguage(w, h, messages, session) ==
    IF messages \in {SelectorBahasa, SelectorEnglish} /\ detect_language(messages) # None
    THEN { [y EXCEPT !.meta.detected_language = detect_language(messages)]
           : y \in Bind(Concurrently(w),
                        LAMBDA x : save_session(
                                     x, h, session.session_id,
                                     set_language(session.doc,
                                                  Val(detect_language(messages)), now))) }
    ELSE {w}

\* The reply bot launched before the custom field is written
CommandMessage_launch_first(w, h, entity_id, messages) ==
    IF kommo_service /\ entity_id # None
    THEN Bind(launch_salesbot(w, h, REPLY_CUSTOM_BOT_ID, Val(entity_id)),
              LAMBDA x : IF x.exc THEN {x}
                         ELSE update_lead_custom_fields(x, h, Val(entity_id),
                                                        RawText(messages)))
    ELSE {w}

\* handle, lines 249-305: a session with a language and a command message
CommandMessage(w, h, entity_id, messages) ==
    IF kommo_service /\ entity_id # None
    THEN Bind(update_lead_custom_fields(w, h, Val(entity_id), RawText(messages)),
              LAMBDA x : IF x.exc THEN {x}
                         ELSE IF x.ret
                         THEN launch_salesbot(x, h, REPLY_CUSTOM_BOT_ID, Val(entity_id))
                         ELSE {x})
    ELSE {w}

\* The language detected whether the session has one or not
LanguageStage_detects_again(w, h, entity_id, messages, session) ==
    IF messages = <<>> \/ session = None THEN {w}
    ELSE IF Val(session).doc.language = None \/ detect_language(messages) # None
    THEN DetectLanguage(w, h, messages, Val(session))
    ELSE IF is_command(messages)
    THEN CommandMessage(w, h, entity_id, messages)
    ELSE {w}

\* handle, lines 203-305
LanguageStage(w, h, entity_id, messages, session) ==
    IF messages = <<>> \/ session = None THEN {w}
    ELSE IF Val(session).doc.language = None
    THEN DetectLanguage(w, h, messages, Val(session))
    ELSE IF is_command(messages)
    THEN CommandMessage(w, h, entity_id, messages)
    ELSE {w}

\* The payload deleted whatever the audit write returned
AuditWrite_delete_always(w, h, path) ==
    Bind(save_lead(w, h, LeadDoc(path, w.meta)),
         LAMBDA x : delete_realtime_data(x, h, path))

\* handle, lines 308-344: the audit write, then the deletion of the payload
AuditWrite(w, h, path) ==
    Bind(save_lead(w, h, LeadDoc(path, w.meta)),
         LAMBDA x : IF x.ret THEN delete_realtime_data(x, h, path) ELSE {x})

\* IncomingLeadHandler.can_handle
IncomingLeadHandler_can_handle(path, data) ==
    IF ~Truthy(data) THEN FALSE
    ELSE IF ~IsDict(data) THEN FALSE
    ELSE TRUE

\* IncomingLeadHandler.handle.  A world with exc set: handle has raised
\* (the outer except clause logs and re-raises).
IncomingLeadHandler_handle(w, path, data) ==
    LET h == LeadHandler
        entity_id == EntityIdOf(data)
        w0 == [w EXCEPT !.meta = EmptyMeta, !.ret = None]
        looked_up ==
            IF EntityTruthy(entity_id) THEN SessionLookup(w0, h, Val(entity_id))
            ELSE {w0}
        detected ==
            Bind(looked_up,
                 LAMBDA x : LanguageStage(x, h, entity_id, MessagesOf(data), x.ret))
    IN IF ~IsDict(data) THEN {Raise(w)}
       ELSE IF MessagesRaises(data) THEN {Raise(w)}
       ELSE Bind(detected, LAMBDA x : IF x.exc THEN {x} ELSE AuditWrite(x, h, path))

----------------------------------------------------------------------------
(* handlers/handler_manager.py *)

\* register_handler: the new <<handlers, default_handler>>
register_handler(hs, dh, handler, default) ==
    <<Append(hs, handler), IF default THEN Some(handler) ELSE dh>>

\* unregister_handler that leaves the default designation alone
unregister_handler_keeps_default(hs, dh, handler) ==
    IF handler \in Range(hs) THEN <<RemoveFirst(hs, handler), dh>> ELSE <<hs, dh>>

\* unregister_handler
unregister_handler(hs, dh, handler) ==
    IF handler \in Range(hs)
    THEN <<RemoveFirst(hs, handler), IF dh = Some(handler) THEN None ELSE dh>>
    ELSE <<hs, dh>>

\* clear_handlers
clear_handlers(hs, dh) == <<(<<>>), None>>

\* handler.can_handle(event_path, event_data): "true", "false" or "raise"
can_handle(h, path, data, o) ==
    CASE h = MessageHandler ->
           IF IncomingMessageHandler_can_handle(path, data) THEN "true" ELSE "false"
      [] h = LeadHandler ->
           IF IncomingLeadHandler_can_handle(path, data) THEN "true" ELSE "false"
      [] OTHER -> o.can[h]

\* handler.handle(event_path, event_data)
handle(h, w, path, data, o) ==
    CASE h = MessageHandler -> IncomingMessageHandler_handle(w, path, data)
      [] h = LeadHandler -> IncomingLeadHandler_handle(w, path, data)
      [] OTHER -> IF o.handle[h] = "raise" THEN {Raise(w)} ELSE {w}

\* The exception of can_handle taken for a match
Matches_raise_matches(h, path, data, o) == can_handle(h, path, data, o) # "false"

\* process_event, lines 78-85: whether the handler joins non_default_handlers;
\* an exception of can_handle is logged and the handler left out
Matches(h, path, data, o) == can_handle(h, path, data, o) = "true"

\* process_event, lines 74-85: the loop over self.handlers.  ret is
\* non_default_handlers.
RECURSIVE MatchHandlers(_, _, _, _, _, _)
MatchHandlers(w, hs, dh, path, data, o) ==
    IF hs = <<>> THEN w
    ELSE IF Some(Head(hs)) = dh
    THEN MatchHandlers(w, Tail(hs), dh, path, data, o)
    ELSE MatchHandlers(
           [Log(w, [op |-> "can_handle", h |-> Head(hs),
                    res |-> can_handle(Head(hs), path, data, o)])
             EXCEPT !.ret = IF Matches(Head(hs), path, data, o)
                            THEN Append(@, Head(hs)) ELSE @],
           Tail(hs), dh, path, data, o)

\* The default handler left out
capable_handlers_no_default(dh, non_default_handlers) == non_default_handlers

\* The default handler put last
capable_handlers_default_last(dh, non_default_handlers) ==
    non_default_handlers \o (IF dh # None THEN <<Val(dh)>> ELSE <<>>)

\* process_event, lines 87-99: capable_handlers
capable_handlers(dh, non_default_handlers) ==
    (IF dh # None THEN <<Val(dh)>> ELSE <<>>) \o non_default_handlers

\* The handler called outside any try block
TryHandle_no_except(h, w, path, data, o) ==
    handle(h, Log(w, [op |-> "handle", h |-> h, path |-> path, data |-> data]),
           path, data, o)

\* process_event, lines 115-128: one handler under try/except
TryHandle(h, w, path, data, o) ==
    { IF x.exc
      THEN Log([x EXCEPT !.exc = FALSE], [op |-> "handle_error", h |-> h])
      ELSE x
      : x \in handle(h, Log(w, [op |-> "handle", h |-> h, path |-> path,
                                data |-> data]),
                     path, data, o) }

\* process_event, lines 114-129: the loop over capable_handlers; an exception
\* that leaves a handler's try block ends the loop
RECURSIVE RunHandlers(_, _, _, _, _)
RunHandlers(W, hs, path, data, o) ==
    IF hs = <<>> THEN W
    ELSE RunHandlers(Bind(W, LAMBDA w : IF w.exc THEN {w}
                                        ELSE TryHandle(Head(hs), w, path, data, o)),
                     Tail(hs), path, data, o)

\* process_event: the worlds it can leave behind
process_event(w, hs, dh, path, data, o) ==
    LET matched == MatchHandlers([w EXCEPT !.ret = <<>>], hs, dh, path, data, o)
    IN RunHandlers({matched}, capable_handlers(dh, matched.ret), path, data, o)

----------------------------------------------------------------------------
(* Inputs *)

Paths == {"/leads/a"}

PassportInput == <<"a","1"," ","b","2","-","c","3">>
ShortInput == <<"1","2">>
Greeting == <<"h","i">>
PaddedCommand == <<" ","M","a","i","n"," ","M","e","n","u"," ">>
PaddedEnglish == <<" ">> \o SelectorEnglish \o <<" ">>

EntityFields ==
    {AbsentEntity, BadEntity, IntEntity(0), IntEntity(1), StrEntity(1)}

\* Payloads that exercise the session logic of the lead handler: every
\* message with an int entity_id, two messages with each other entity_id
\* field, and a number for messages beside an unparsable entity_id
LeadPayloads ==
    { Payload("dict", e, m, None, None, FALSE) :
        e \in {IntEntity(1)},
        m \in {AbsentMessages, NumMessages, StrMessages(SelectorBahasa),
               StrMessages(PaddedEnglish), StrMessages(PaddedCommand),
               StrMessages(Greeting)} }
    \cup
    { Payload("dict", e, m, None, None, FALSE) :
        e \in EntityFields \ {IntEntity(1)},
        m \in {AbsentMessages, StrMessages(Greeting)} }
    \cup
    { Payload("dict", BadEntity, NumMessages, None, None, FALSE) }

\* Payloads that exercise the state machine of the message handler: the
\* states that read no message, and the state that reads a passport number
MessagePayloads ==
    { Payload("dict", IntEntity(1), AbsentMessages, l, s, FALSE) :
        l \in {None, Some(ENGLISH), Some(<<"i","d">>)},
        s \in {None, Some(INITIAL)} }
    \cup
    { Payload("dict", IntEntity(1), m, l, Some(AWAITING_PASSPORT_NUMBER), FALSE) :
        m \in {AbsentMessages, StrMessages(PassportInput), StrMessages(ShortInput)},
        l \in {None, Some(ENGLISH), Some(<<"i","d">>)} }

Payloads ==
    {NullPayload, StrPayload, ZeroPayload,
     Payload("dict", AbsentEntity, AbsentMessages, None, None, TRUE)}
    \cup LeadPayloads \cup MessagePayloads

\* The path and payloads the stub handlers are dispatched on
StubPath == "/leads/a"
StubPayloads == {NullPayload, Payload("dict", IntEntity(1), AbsentMessages, None, None, FALSE)}

----------------------------------------------------------------------------
(* State machine *)

\* retry: in the event before this one the lead handler's lookup found no
\* session and no launch of the language-selection bot returned
NoEvent ==
    [valid |-> FALSE, path |-> "", data |-> NullPayload, calls |-> <<>>, exc |-> FALSE,
     dead |-> {}, retry |-> FALSE]

BootstrapMissed(calls) ==
    /\ \E i \in DOMAIN calls :
          /\ calls[i].op = "get_latest_session_by_entity_id"
          /\ calls[i].h = LeadHandler
          /\ calls[i].ok
          /\ calls[i].found = None
    /\ \A j \in DOMAIN calls :
          ~(/\ calls[j].op = "launch_salesbot"
            /\ calls[j].h = LeadHandler
            /\ calls[j].bot_id = LANG_SELECT_BOT_ID
            /\ calls[j].ok)

\* The registrations run() makes: the message handler, then the lead
\* handler, no default (app.py)
RunWiring == <<(<<MessageHandler, LeadHandler>>), None>>

InitStore ==
    /\ sessions = <<>>
    /\ leads = 0
    /\ rtdb = {}
    /\ now = 0
    /\ last = NoEvent

\* No function is called on its own
NoCall == [fn |-> "none"]

\* run() at line 165: the services are open, no thread has been started
InitThreads ==
    /\ kill_now = FALSE
    /\ closed = FALSE
    /\ kommo_closed = FALSE
    /\ firestore_closed = FALSE
    /\ listener_error = FALSE
    /\ event_lock = "free"
    /\ event_queue = <<>>
    /\ events_queue = <<>>
    /\ events_to_process = <<>>
    /\ mpc = "start"
    /\ lpc = "new"
    /\ event = 0
    /\ emitted = 0
    /\ appended = <<>>
    /\ dispatched = <<>>
    /\ in_progress = 0
    /\ joined = "no"

InitNoCall ==
    /\ call = NoCall
    /\ result = None

Init ==
    /\ handlers = RunWiring[1]
    /\ default_handler = RunWiring[2]
    /\ kommo_service \in BOOLEAN
    /\ love_bali_service \in BOOLEAN
    /\ InitStore
    /\ InitThreads
    /\ InitNoCall

\* The handlers of run() with one of them registered as the default handler
InitDefault ==
    /\ handlers = RunWiring[1]
    /\ default_handler \in {Some(MessageHandler), Some(LeadHandler)}
    /\ kommo_service = TRUE
    /\ love_bali_service = TRUE
    /\ InitStore
    /\ InitThreads
    /\ InitNoCall

\* The manager right after HandlerManager()
InitManager ==
    /\ handlers = <<>>
    /\ default_handler = None
    /\ kommo_service = TRUE
    /\ love_bali_service = FALSE
    /\ InitStore
    /\ InitThreads
    /\ InitNoCall

RegisterHandler(h, default) ==
    /\ ~last.valid
    /\ Len(handlers) < MaxHandlers
    /\ handlers' = register_handler(handlers, default_handler, h, default)[1]
    /\ default_handler' = register_handler(handlers, default_handler, h, default)[2]
    /\ last' = NoEvent
    /\ UNCHANGED <<kommo_service, love_bali_service, sessions, leads, rtdb, now>>
    /\ UNCHANGED appvars
    /\ UNCHANGED purevars

UnregisterHandler(h) ==
    /\ ~last.valid
    /\ handlers' = unregister_handler(handlers, default_handler, h)[1]
    /\ default_handler' = unregister_handler(handlers, default_handler, h)[2]
    /\ last' = NoEvent
    /\ UNCHANGED <<kommo_service, love_bali_service, sessions, leads, rtdb, now>>
    /\ UNCHANGED appvars
    /\ UNCHANGED purevars

ClearHandlers ==
    /\ ~last.valid
    /\ handlers' = clear_handlers(handlers, default_handler)[1]
    /\ default_handler' = clear_handlers(handlers, default_handler)[2]
    /\ last' = NoEvent
    /\ UNCHANGED <<kommo_service, love_bali_service, sessions, leads, rtdb, now>>
    /\ UNCHANGED appvars
    /\ UNCHANGED purevars

\* The world process_event starts in: the event (path, data) reports that
\* the realtime store holds data at path (no payload when data is None)
StartWorld(path, data) ==
    [sessions |-> sessions,
     leads |-> leads,
     rtdb |-> IF data.kind = "null" THEN rtdb \ {path} ELSE rtdb \cup {path},
     calls |-> <<>>,
     exc |-> FALSE,
     ret |-> None,
     meta |-> EmptyMeta,
     faults |-> 0,
     dead |-> Inactive(sessions)]

\* One event of the realtime store, dispatched by the main loop of run()
ProcessEvent(path, data, o) ==
    /\ ~last.valid
    /\ Cardinality(DOMAIN sessions) < MaxSessions
    /\ leads < MaxLeads
    /\ \E x \in process_event(StartWorld(path, data), handlers, default_handler,
                              path, data, o) :
          /\ sessions' = x.sessions
          /\ leads' = x.leads
          /\ rtdb' = x.rtdb
          /\ last' = [valid |-> TRUE, path |-> path, data |-> data,
                      calls |-> x.calls, exc |-> x.exc,
                      dead |-> x.dead \cup Inactive(x.sessions),
                      retry |-> last.retry]
    /\ UNCHANGED <<handlers, default_handler, kommo_service, love_bali_service, now>>
    /\ UNCHANGED appvars
    /\ UNCHANGED purevars

\* The main loop of run() is done with the event and polls again
NextIteration ==
    /\ last.valid
    /\ last' = [NoEvent EXCEPT !.retry = BootstrapMissed(last.calls)]
    /\ UNCHANGED <<handlers, default_handler, kommo_service, love_bali_service,
                   sessions, leads, rtdb, now>>
    /\ UNCHANGED appvars
    /\ UNCHANGED purevars

\* cleanup_expired_sessions called on the document database between two
\* events (a call that cleans nothing, fails or lacks the index leaves the
\* store as it is)
CleanupExpiredSessions ==
    /\ ~last.valid
    /\ Cleanable(sessions, now) # {}
    /\ sessions' = CleanedSessions(sessions, now)
    /\ UNCHANGED <<handlers, default_handler, kommo_service, love_bali_service,
                   leads, rtdb, now, last>>
    /\ UNCHANGED appvars
    /\ UNCHANGED purevars

Tick ==
    /\ ~last.valid
    /\ now + TickHours <= MaxNow
    /\ now' = now + TickHours
    /\ UNCHANGED <<handlers, default_handler, kommo_service, love_bali_service,
                   sessions, leads, rtdb, last>>
    /\ UNCHANGED appvars
    /\ UNCHANGED purevars

Next ==
    \/ \E path \in Paths, data \in Payloads : ProcessEvent(path, data, DefaultOracle)
    \/ NextIteration
    \/ CleanupExpiredSessions
    \/ Tick

Spec == Init /\ [][Next]_vars

SpecDefault == InitDefault /\ [][Next]_vars

\* The manager with stub handlers, registered and unregistered at will
NextManager ==
    \/ \E h \in Stubs, default \in BOOLEAN : RegisterHandler(h, default)
    \/ \E h \in Stubs : UnregisterHandler(h)
    \/ ClearHandlers
    \/ \E data \in StubPayloads, o \in RelevantOracles(handlers, default_handler) :
          ProcessEvent(StubPath, data, o)
    \/ NextIteration

SpecManager == InitManager /\ [][NextManager]_vars

----------------------------------------------------------------------------
(* The dispatch of the last event, read off its trace *)

CallsOf(op) == SelectSeq(last.calls, LAMBDA c : c.op = op)
HandlerOf(cs) == [i \in DOMAIN cs |-> cs[i].h]

\* Handlers whose handle was called, in the order of the calls
Handled == HandlerOf(CallsOf("handle"))
\* Handlers whose can_handle was called, in the order of the calls
Consulted == HandlerOf(CallsOf("can_handle"))
\* Handlers whose can_handle returned true, in the order of the calls
Matched == HandlerOf(SelectSeq(last.calls,
                               LAMBDA c : c.op = "can_handle" /\ c.res = "true"))
NonDefault == SelectSeq(handlers, LAMBDA h : Some(h) # default_handler)
DefaultFirst == IF default_handler # None THEN <<Val(default_handler)>> ELSE <<>>

\* C1: when a default handler is set, process_event calls the default
\* handler's handle exactly once, with the event's path and data, whatever
\* can_handle of any handler returns or raises and whatever any handle does.
Inv_C1 ==
    (last.valid /\ default_handler # None) =>
        /\ Cardinality({i \in DOMAIN last.calls :
                          /\ last.calls[i].op = "handle"
                          /\ last.calls[i].h = Val(default_handler)}) = 1
        /\ \A i \in DOMAIN last.calls :
              (last.calls[i].op = "handle" /\ last.calls[i].h = Val(default_handler))
                  => (last.calls[i].path = last.path /\ last.calls[i].data = last.data)

\* A dispatch with a default handler in which a can_handle raised and a
\* handle raised
Witness_C1 ==
    /\ last.valid
    /\ default_handler # None
    /\ Len(handlers) = MaxHandlers
    /\ \E i \in DOMAIN last.calls :
          last.calls[i].op = "can_handle" /\ last.calls[i].res = "raise"
    /\ \E i \in DOMAIN last.calls : last.calls[i].op = "handle_error"
    /\ Val(default_handler) \in Range(Handled)

\* C2: handle is called on the default handler first (if one is set), then
\* on the non-default handlers whose can_handle returned true, in the order
\* of registration; can_handle is asked of the non-default handlers in the
\* order of registration; with no default and no match no handle is called.
Inv_C2 ==
    last.valid =>
        /\ Consulted = NonDefault
        /\ Handled = DefaultFirst \o Matched

\* A dispatch that called the default handler and two matching handlers
Witness_C2 ==
    /\ last.valid
    /\ default_handler # None
    /\ Len(Matched) = 2
    /\ Matched[1] # Matched[2]
    /\ Len(Handled) = 3

\* C3: a handle that raises does not stop the handlers after it, and
\* process_event returns normally.
Inv_C3 ==
    last.valid =>
        /\ ~last.exc
        /\ Len(Handled) = Len(DefaultFirst) + Len(Matched)
        /\ \A i \in DOMAIN last.calls :
              last.calls[i].op = "handle_error" =>
                  /\ i > 1
                  /\ last.calls[i - 1].op = "handle"
                  /\ last.calls[i - 1].h = last.calls[i].h

\* A dispatch in which a handle raised and a later handler was still called
Witness_C3 ==
    /\ last.valid
    /\ ~last.exc
    /\ \E i, j \in DOMAIN last.calls :
          /\ i < j
          /\ last.calls[i].op = "handle_error"
          /\ last.calls[j].op = "handle"

\* C4: a can_handle that raises counts as no match: the handler is not
\* called, the handlers registered after it are still asked, the default
\* handler and the matching handlers are still called, and process_event
\* returns normally.
Inv_C4 ==
    last.valid =>
        /\ ~last.exc
        /\ Len(Consulted) = Len(NonDefault)
        /\ \A i \in DOMAIN last.calls :
              (last.calls[i].op = "can_handle" /\ last.calls[i].res = "raise")
                  => last.calls[i].h \notin Range(Handled)
        /\ \A i \in DOMAIN last.calls :
              (last.calls[i].op = "can_handle" /\ last.calls[i].res = "true")
                  => last.calls[i].h \in Range(Handled)
        /\ default_handler # None => Val(default_handler) \in Range(Handled)

\* A dispatch in which the first can_handle raised, a later one matched, and
\* the default handler and the matching handler were called
Witness_C4 ==
    /\ last.valid
    /\ default_handler # None
    /\ \E i, j \in DOMAIN last.calls :
          /\ i < j
          /\ last.calls[i].op = "can_handle" /\ last.calls[i].res = "raise"
          /\ last.calls[j].op = "can_handle" /\ last.calls[j].res = "true"
          /\ last.calls[j].h \in Range(Handled)
    /\ Val(default_handler) \in Range(Handled)

----------------------------------------------------------------------------
(* The handlers' calls in the last event *)

Idx == DOMAIN last.calls
Call(i) == last.calls[i]

IsLeadSave(c, h) ==
    c.op = "save_to_firestore" /\ c.h = h /\ c.collection = "leads"
IsDelete(c, h) == c.op = "delete_realtime_data" /\ c.h = h
IsLaunch(c, h, bot_id) == c.op = "launch_salesbot" /\ c.h = h /\ c.bot_id = bot_id
\* The lead handler's session lookup returned None
LookupFoundNone(c) ==
    /\ c.op = "get_latest_session_by_entity_id"
    /\ c.h = LeadHandler
    /\ c.ok
    /\ c.found = None

\* C5 (as stated): every call of IncomingLeadHandler.handle on a dict
\* payload attempts to save a Lead marked processed to the leads collection,
\* whatever the session lookup, the bot launch, the session creation, the
\* language detection or the CRM command update did before it.  (Stated
\* here for the payloads whose messages field is absent or a string.)
Claim_C5 ==
    last.valid =>
        \A i \in Idx :
            ( /\ Call(i).op = "handle"
              /\ Call(i).h = LeadHandler
              /\ IsDict(Call(i).data)
              /\ ~MessagesRaises(Call(i).data) )
                => \E j \in Idx :
                      /\ j > i
                      /\ IsLeadSave(Call(j), LeadHandler)
                      /\ Call(j).doc.processed
                      /\ Call(j).doc.source_path = last.path

\* C6: IncomingLeadHandler.handle requests the deletion of the payload, at
\* the event path, only after a successful save of the Lead; when the save
\* fails it requests no deletion, and the payload stays in the realtime
\* store unless another handler deleted it.
Inv_C6 ==
    last.valid =>
        /\ \A i \in Idx :
              IsDelete(Call(i), LeadHandler) =>
                  /\ Call(i).path = last.path
                  /\ \E j \in Idx :
                        j < i /\ IsLeadSave(Call(j), LeadHandler) /\ Call(j).ok
        /\ (\E j \in Idx : IsLeadSave(Call(j), LeadHandler) /\ ~Call(j).ok) =>
              /\ \A i \in Idx : ~IsDelete(Call(i), LeadHandler)
              /\ (\A i \in Idx : Call(i).op # "delete_realtime_data")
                    => last.path \in rtdb

\* An event whose Lead could not be saved: no deletion, the payload stays
Witness_C6 ==
    /\ last.valid
    /\ \E j \in Idx : IsLeadSave(Call(j), LeadHandler) /\ ~Call(j).ok
    /\ \A i \in Idx : Call(i).op # "delete_realtime_data"
    /\ last.path \in rtdb

\* C7 (as stated): with the handlers run() registers, the payload of an
\* event is not deleted from the realtime store before the Lead of the
\* event has been persisted.
Claim_C7 ==
    (last.valid /\ handlers = RunWiring[1] /\ default_handler = RunWiring[2]) =>
        \A i \in Idx :
            (Call(i).op = "delete_realtime_data" /\ Call(i).ok) =>
                \E j \in Idx : j < i /\ Call(j).op = "save_to_firestore"
                                       /\ Call(j).collection = "leads" /\ Call(j).ok

\* C8 (as stated): in state AWAITING_PASSPORT_NUMBER, with a validly
\* formatted input, a stored active session of the entity and a lookup that
\* found the passport, the lookup was called with the normalized number, the
\* session is updated to command MAIN_MENU, and the main-menu bot of the
\* payload's language is launched.
Claim_C8 ==
    ( /\ last.valid
      /\ IsDict(last.data)
      /\ last.data.state = Some(AWAITING_PASSPORT_NUMBER)
      /\ normalize_passport_number(MessagesOf(last.data)) # None
      /\ is_valid_passport_number(Val(normalize_passport_number(MessagesOf(last.data))))
      /\ \E i \in Idx : /\ Call(i).op = "get_active_session_for_entity"
                         /\ Call(i).stored
      /\ \E i \in Idx : /\ Call(i).op = "single_scan_passport"
                         /\ Call(i).res = "found" )
    =>
        /\ \A i \in Idx :
              Call(i).op = "single_scan_passport" =>
                  Some(Call(i).passport_number)
                      = normalize_passport_number(MessagesOf(last.data))
        /\ \E i \in Idx : /\ Call(i).op = "update_session"
                           /\ Call(i).h = MessageHandler
                           /\ Call(i).req.command = Some(MAIN_MENU)
        /\ \E i \in Idx :
              IsLaunch(Call(i), MessageHandler,
                       IF last.data.language = Some(ENGLISH) \/ last.data.language = None
                       THEN MAIN_MENU_EN_BOT_ID ELSE MAIN_MENU_ID_BOT_ID)

\* C9 (as stated): for every event IncomingMessageHandler.handle processes,
\* whatever the outcome, it attempts to delete the payload at the event path.
Claim_C9 ==
    last.valid =>
        \A i \in Idx :
            (Call(i).op = "handle" /\ Call(i).h = MessageHandler) =>
                \E j \in Idx :
                    j > i /\ IsDelete(Call(j), MessageHandler) /\ Call(j).path = last.path

\* The Session the lead handler creates for entity_id at the present time
NewSession(entity_id) ==
    [entity_id |-> Some(entity_id), language |-> None, command |-> Some(MAIN_MENU),
     created_at |-> now, updated_at |-> now, expires_at |-> Some(now + 24),
     is_active |-> TRUE]

IsCreate(c) == c.op = "create_session" /\ c.h = LeadHandler

\* C10 (as stated): when the lead handler's session lookup returns no
\* session for a valid entity_id, a launch of the language-selection bot is
\* attempted and a new Session is created with language unset, command
\* MAIN_MENU, is_active true and a 24-hour expiry.
Claim_C10 ==
    last.valid =>
        \A i \in Idx :
            LookupFoundNone(Call(i)) =>
                /\ \E j \in Idx :
                      j > i /\ IsLaunch(Call(j), LeadHandler, LANG_SELECT_BOT_ID)
                            /\ Call(j).entity_id = Call(i).entity_id
                /\ \E k \in Idx :
                      /\ k > i
                      /\ IsCreate(Call(k))
                      /\ Call(k).ok
                      /\ Call(k).doc = NewSession(Call(i).entity_id)
                      /\ Call(k).session_id \in DOMAIN sessions
                      /\ sessions[Call(k).session_id] = Call(k).doc

\* C10 (amended): when the lookup returns no session for a valid entity_id
\* and the handler has a CRM service, a launch of the language-selection bot
\* is attempted for the entity; when the launch returned, the creation of a
\* Session with language unset, command MAIN_MENU, is_active true and a
\* 24-hour expiry is attempted, and the Session is stored when the creation
\* did not raise.  Without a CRM service, or when the launch raised, no
\* Session is created.
Inv_C10 ==
    last.valid =>
        \A i \in Idx :
            LookupFoundNone(Call(i)) =>
                /\ kommo_service =>
                      \E j \in Idx :
                          /\ j > i
                          /\ IsLaunch(Call(j), LeadHandler, LANG_SELECT_BOT_ID)
                          /\ Call(j).entity_id = Call(i).entity_id
                /\ \A j \in Idx :
                      (IsLaunch(Call(j), LeadHandler, LANG_SELECT_BOT_ID) /\ Call(j).ok) =>
                          \E k \in Idx :
                              /\ k > j
                              /\ IsCreate(Call(k))
                              /\ Call(k).doc = NewSession(Call(i).entity_id)
                              /\ Call(k).ok =>
                                    /\ Call(k).session_id \in DOMAIN sessions
                                    /\ sessions[Call(k).session_id] = Call(k).doc
                /\ \A k \in Idx :
                      IsCreate(Call(k)) =>
                          \E j \in Idx :
                              /\ j < k
                              /\ IsLaunch(Call(j), LeadHandler, LANG_SELECT_BOT_ID)
                              /\ Call(j).ok

\* An event that found no session, launched the bot and stored the Session
Witness_C10 ==
    /\ last.valid
    /\ \E i, j, k \in Idx :
          /\ i < j /\ j < k
          /\ LookupFoundNone(Call(i))
          /\ IsLaunch(Call(j), LeadHandler, LANG_SELECT_BOT_ID) /\ Call(j).ok
          /\ IsCreate(Call(k)) /\ Call(k).ok
          /\ sessions[Call(k).session_id] = NewSession(Call(i).entity_id)

\* The lead handler's session lookup returned a session
LookupFound(c) ==
    /\ c.op = "get_latest_session_by_entity_id"
    /\ c.h = LeadHandler
    /\ c.ok
    /\ c.found # None

IsSessionSave(c) ==
    c.op = "save_to_firestore" /\ c.h = LeadHandler /\ c.collection = "sessions"

\* The language a selector message stands for
SelectedLanguage(m) == IF m = SelectorBahasa THEN "ID" ELSE "EN"

\* C11: when the session the lead handler found has no language and the
\* trimmed message is one of the two selector strings, the handler writes
\* the session with the language set (ID for the Bahasa selector, EN for the
\* English one), the store holds that session when the write succeeded, and
\* the handler launches no bot; for any other message the handler writes no
\* session and the stored session is as it was read.
Inv_C11 ==
    last.valid =>
        \A i \in Idx :
            (LookupFound(Call(i)) /\ Val(Call(i).found).doc.language = None) =>
                LET s == Val(Call(i).found)
                    m == MessagesOf(last.data)
                    written == [s.doc EXCEPT !.language = Some(SelectedLanguage(m)),
                                             !.updated_at = now]
                    \* what the store holds when the write failed: the
                    \* session as read, or as another client deactivated it
                    unwritten ==
                        IF \E k \in Idx : /\ Call(k).op = "cleanup_expired_sessions"
                                          /\ s.session_id \in Call(k).cleaned
                        THEN [s.doc EXCEPT !.is_active = FALSE, !.updated_at = now]
                        ELSE s.doc
                IN IF m \in {SelectorBahasa, SelectorEnglish}
                   THEN /\ \E j \in Idx :
                             /\ j > i
                             /\ IsSessionSave(Call(j))
                             /\ Call(j).doc = written
                             /\ Call(j).ok => sessions[s.session_id] = written
                             /\ ~Call(j).ok => sessions[s.session_id] = unwritten
                        /\ \A k \in Idx :
                             ~(Call(k).op = "launch_salesbot" /\ Call(k).h = LeadHandler)
                   ELSE /\ \A j \in Idx : ~IsSessionSave(Call(j))
                        /\ sessions[s.session_id] = s.doc

\* The padded English selector on a session without language: the session
\* is stored with language EN
Witness_C11 ==
    /\ last.valid
    /\ IsDict(last.data)
    /\ last.data.messages = StrMessages(PaddedEnglish)
    /\ \E i \in Idx :
          /\ LookupFound(Call(i))
          /\ Val(Call(i).found).doc.language = None
          /\ sessions[Val(Call(i).found).session_id].language = Some("EN")

IsCommandUpdate(c, entity_id, m) ==
    /\ c.op = "update_lead_custom_fields"
    /\ c.h = LeadHandler
    /\ c.entity_id = entity_id
    /\ c.text = RawText(m)

\* The lead handler found a session with a language and the message is a
\* command label
CommandCase(c) ==
    /\ LookupFound(c)
    /\ Val(c.found).doc.language # None
    /\ MessagesOf(last.data) \in COMMAND_LIST

\* C12 (as stated): when the found session has a language and the message
\* is one of the five command labels, the lead handler issues a CRM
\* custom-field update for the entity with that message text, then a
\* reply-bot launch for the same entity, and does not modify the session.
Claim_C12 ==
    last.valid =>
        \A i \in Idx :
            CommandCase(Call(i)) =>
                /\ \E j, k \in Idx :
                      /\ i < j /\ j < k
                      /\ IsCommandUpdate(Call(j), Call(i).entity_id, MessagesOf(last.data))
                      /\ IsLaunch(Call(k), LeadHandler, REPLY_CUSTOM_BOT_ID)
                      /\ Call(k).entity_id = Call(i).entity_id
                /\ sessions[Val(Call(i).found).session_id] = Val(Call(i).found).doc

\* C12 (amended): in that case a handler with a CRM service issues the
\* custom-field update for the entity with the trimmed message text; the
\* reply-bot launch for the same entity follows when, and only when, the
\* update returned a non-empty response; a handler without a CRM service
\* issues neither; the session is not written.
Inv_C12 ==
    last.valid =>
        \A i \in Idx :
            CommandCase(Call(i)) =>
                /\ kommo_service =>
                      \E j \in Idx :
                          j > i /\ IsCommandUpdate(Call(j), Call(i).entity_id,
                                                   MessagesOf(last.data))
                /\ \A j \in Idx :
                      ( /\ IsCommandUpdate(Call(j), Call(i).entity_id, MessagesOf(last.data))
                        /\ Call(j).res = "truthy" ) =>
                          /\ j < Len(last.calls)
                          /\ IsLaunch(Call(j + 1), LeadHandler, REPLY_CUSTOM_BOT_ID)
                          /\ Call(j + 1).entity_id = Call(i).entity_id
                /\ \A k \in Idx :
                      (Call(k).op = "launch_salesbot" /\ Call(k).h = LeadHandler) =>
                          /\ k > 1
                          /\ IsCommandUpdate(Call(k - 1), Call(i).entity_id,
                                             MessagesOf(last.data))
                          /\ Call(k - 1).res = "truthy"
                          /\ Call(k).bot_id = REPLY_CUSTOM_BOT_ID
                /\ ~kommo_service =>
                      \A j \in Idx :
                          ~(Call(j).op = "update_lead_custom_fields" /\ Call(j).h = LeadHandler)
                /\ \A j \in Idx : ~IsSessionSave(Call(j))
                /\ sessions[Val(Call(i).found).session_id] = Val(Call(i).found).doc

\* The padded command on a session with a language: the update with the
\* trimmed text, then the reply-bot launch
Witness_C12 ==
    /\ last.valid
    /\ \E i, j \in Idx :
          /\ i < j
          /\ CommandCase(Call(i))
          /\ last.data.messages = StrMessages(PaddedCommand)
          /\ IsCommandUpdate(Call(j), 1, <<"M","a","i","n"," ","M","e","n","u">>)
          /\ j < Len(last.calls)
          /\ IsLaunch(Call(j + 1), LeadHandler, REPLY_CUSTOM_BOT_ID)

----------------------------------------------------------------------------
(* C13: state AWAITING_PASSPORT_NUMBER with an input of invalid format *)

\* A call of the message handler
ByMessageHandler(c) == c.op # "can_handle" /\ c.h = MessageHandler

IsScan(c) == c.op = "single_scan_passport"

\* A call that creates or writes a session
IsSessionWrite(c) ==
    \/ c.op \in {"create_session", "update_session"}
    \/ c.op = "save_to_firestore" /\ c.collection = "sessions"

\* The language the message handler answers the event in
UserLang ==
    normalize_language(IF last.data.language = None THEN Some(ENGLISH)
                       ELSE last.data.language)

\* The message handler has handled a payload in the given state
MessageEvent(state) ==
    /\ last.valid
    /\ IsDict(last.data)
    /\ ~MessagesRaises(last.data)
    /\ (IF last.data.state = None THEN INITIAL ELSE Val(last.data.state)) = state
    /\ \E i \in Idx : Call(i).op = "handle" /\ Call(i).h = MessageHandler

\* The normalized input is empty or is not 6 to 12 uppercase letters or digits
InvalidInput ==
    LET n == normalize_passport_number(MessagesOf(last.data))
    IN n = None \/ ~is_valid_passport_number(Val(n))

\* The calls with which the message handler sends a text: Call(j) is the
\* custom-field update and Call(j + 1) the reply-bot launch
SendsAt(j, key) ==
    /\ Call(j).op = "update_lead_custom_fields"
    /\ Call(j).h = MessageHandler
    /\ Call(j).entity_id = Val(EntityIdOf(last.data))
    /\ Call(j).text.kind = "catalog"
    /\ Call(j).text.key = key
    /\ Call(j).text.lang = UserLang
    /\ j < Len(last.calls)
    /\ IsLaunch(Call(j + 1), MessageHandler, REPLY_CUSTOM_BOT_ID)
    /\ Call(j + 1).entity_id = Val(EntityIdOf(last.data))

----------------------------------------------------------------------------
(* C14: state INITIAL *)

IsMessageUpdate(c) == c.op = "update_lead_custom_fields" /\ c.h = MessageHandler

IsMessageLaunch(c) == c.op = "launch_salesbot" /\ c.h = MessageHandler

\* The message handler sends exactly one message, the one for the key: one
\* custom-field update followed by one reply-bot launch
SendsExactly(key) ==
    /\ \E j \in Idx : SendsAt(j, key)
    /\ \A j, k \in Idx : (IsMessageUpdate(Call(j)) /\ IsMessageUpdate(Call(k))) => j = k
    /\ \A j, k \in Idx : (IsMessageLaunch(Call(j)) /\ IsMessageLaunch(Call(k))) => j = k

\* The message handler looks no passport up, updates no session and launches
\* no main-menu bot
NoLookupNoUpdateNoMenu ==
    /\ \A i \in Idx : ~IsScan(Call(i))
    /\ \A i \in Idx : ~(Call(i).op = "update_session" /\ Call(i).h = MessageHandler)
    /\ \A i \in Idx :
          IsMessageLaunch(Call(i)) =>
              Call(i).bot_id \notin {MAIN_MENU_EN_BOT_ID, MAIN_MENU_ID_BOT_ID}

----------------------------------------------------------------------------
(* C15: the lead handler on a payload without a usable entity_id *)

\* The lead handler has handled a dict payload whose entity_id is absent or
\* is a str that does not parse as an integer
NoEntityCase ==
    /\ last.valid
    /\ IsDict(last.data)
    /\ last.data.entity_id \in {AbsentEntity, BadEntity}
    /\ \E i \in Idx : Call(i).op = "handle" /\ Call(i).h = LeadHandler

\* No session lookup, bot launch, session creation or CRM field update by
\* the lead handler
NoSessionLogic ==
    \A i \in Idx :
        Call(i).op \in {"get_latest_session_by_entity_id", "launch_salesbot",
                        "create_session", "update_lead_custom_fields"}
            => Call(i).h # LeadHandler

LeadHandlerRaised == \E i \in Idx : Call(i).op = "handle_error" /\ Call(i).h = LeadHandler

\* C15: when the payload's entity_id is absent or does not parse as an
\* integer, the lead handler performs no session lookup, bot launch, session
\* creation or CRM field update, does not raise, and saves the Lead
Claim_C15 ==
    NoEntityCase =>
        /\ NoSessionLogic
        /\ ~LeadHandlerRaised
        /\ \E i \in Idx : IsLeadSave(Call(i), LeadHandler)

\* The part of C15 the code keeps: the same, for a payload whose messages
\* field is absent or a str
Inv_C15 ==
    (NoEntityCase /\ ~MessagesRaises(last.data)) =>
        /\ NoSessionLogic
        /\ ~LeadHandlerRaised
        /\ \E i \in Idx : IsLeadSave(Call(i), LeadHandler)

\* An unparsable entity_id beside a greeting: the Lead is saved
Witness_C15 ==
    /\ NoEntityCase
    /\ last.data.entity_id = BadEntity
    /\ last.data.messages = StrMessages(Greeting)
    /\ NoSessionLogic
    /\ \E i \in Idx : IsLeadSave(Call(i), LeadHandler) /\ Call(i).ok

----------------------------------------------------------------------------
(* C16: an inactive session stays inactive *)

IsCleanup(c) == c.op = "cleanup_expired_sessions"

\* C16: a session that was stored with is_active false, before the event or
\* at some point while the handlers processed it (an expiry deactivation
\* between the lead handler's read and its whole-document write included),
\* is not stored with is_active true when the event is done
Claim_C16 ==
    last.valid => \A sid \in last.dead : ~sessions[sid].is_active

\* The part of C16 the code keeps: the same, for an event during which no
\* other client deactivated a session
Inv_C16 ==
    (last.valid /\ \A i \in Idx : ~IsCleanup(Call(i))) =>
        \A sid \in last.dead : ~sessions[sid].is_active

\* A session deactivated by the handler's own read stays inactive
Witness_C16 ==
    /\ last.valid
    /\ \A i \in Idx : ~IsCleanup(Call(i))
    /\ \E i \in Idx : Call(i).op = "update_session" /\ Call(i).h = LeadHandler
    /\ last.dead # {}

----------------------------------------------------------------------------
(* C17: the texts the message handler writes to the CRM *)

CatalogKeys ==
    {PASSPORT_PROMPT, PASSPORT_INVALID, PASSPORT_ERROR, PASSPORT_NOT_FOUND,
     PASSPORT_FOUND}

\* A catalog message: a text of the catalog for one of the five keys, in a
\* language the catalog has it in; only the found template is substituted
IsCatalogMessage(t) ==
    /\ t.kind = "catalog"
    /\ t.key \in CatalogKeys
    /\ t.lang \in Catalog[t.key]
    /\ t.formatted => t.key = PASSPORT_FOUND
    /\ t.raw = <<>>

----------------------------------------------------------------------------
(* app.py, run(): the listener thread, the queue and the main loop.  An     *)
(* event is the number the realtime store reported it as; what a dispatch   *)
(* does to the stores is the subject of Spec.                               *)

\* event_queue[:], line 208
Batch_reversed(q) == [i \in 1..Len(q) |-> q[Len(q) + 1 - i]]

Batch(q) == [i \in 1..Len(q) |-> q[i]]

\* handler_manager.process_event(...) is a call: the main thread is in it
\* until it returns or raises into the except of line 225
AfterDispatch_no_wait(rest) == "for"

AfterDispatch(rest) == "process_event"

\* thread.join(timeout=2.0) returns when the thread has ended or the timeout
\* has run out
JoinReturns_no_timeout(pc) == pc = "done"

JoinReturns(pc) == TRUE

\* thread.is_alive()
IsAlive(pc) == pc \notin {"new", "done"}

\* The generator of events() is suspended at its yield, inside
\* 'with events_lock'
HoldsEventsLock(pc) == pc \in {"append", "check_kill"}

\* thread.start(), line 197
StartThread ==
    /\ mpc = "start"
    /\ mpc' = "while"
    /\ lpc' = "listen"
    /\ UNCHANGED <<handlers, default_handler, kommo_service,
                   love_bali_service, sessions, leads, rtdb, now, last,
                   kill_now, closed, kommo_closed, firestore_closed,
                   listener_error, event_lock, event_queue, events_queue,
                   events_to_process, event, emitted, appended, dispatched,
                   in_progress, joined>>
    /\ UNCHANGED purevars

\* while not killer.kill_now.is_set() and thread.is_alive(), line 200
WhileTest ==
    /\ mpc = "while"
    /\ mpc' = IF ~kill_now /\ IsAlive(lpc) THEN "check_error" ELSE "after_loop"
    /\ UNCHANGED <<handlers, default_handler, kommo_service,
                   love_bali_service, sessions, leads, rtdb, now, last,
                   kill_now, closed, kommo_closed, firestore_closed,
                   listener_error, event_lock, event_queue, events_queue,
                   events_to_process, lpc, event, emitted, appended,
                   dispatched, in_progress, joined>>
    /\ UNCHANGED purevars

\* lines 202-203: a listener error is raised again; the except of line 241
\* exits through the finally block
CheckError ==
    /\ mpc = "check_error"
    /\ mpc' = IF listener_error THEN "finally" ELSE "lock"
    /\ UNCHANGED <<handlers, default_handler, kommo_service,
                   love_bali_service, sessions, leads, rtdb, now, last,
                   kill_now, closed, kommo_closed, firestore_closed,
                   listener_error, event_lock, event_queue, events_queue,
                   events_to_process, lpc, event, emitted, appended,
                   dispatched, in_progress, joined>>
    /\ UNCHANGED purevars

\* The copy and the clear entered without the mutex
AcquireLock_no_mutex ==
    /\ mpc = "lock"
    /\ mpc' = "copy"
    /\ UNCHANGED <<handlers, default_handler, kommo_service,
                   love_bali_service, sessions, leads, rtdb, now, last,
                   kill_now, closed, kommo_closed, firestore_closed,
                   listener_error, event_lock, event_queue, events_queue,
                   events_to_process, lpc, event, emitted, appended,
                   dispatched, in_progress, joined>>
    /\ UNCHANGED purevars

\* with event_lock, line 207
AcquireLock ==
    /\ mpc = "lock"
    /\ event_lock = "free"
    /\ event_lock' = "main"
    /\ mpc' = "copy"
    /\ UNCHANGED <<handlers, default_handler, kommo_service,
                   love_bali_service, sessions, leads, rtdb, now, last,
                   kill_now, closed, kommo_closed, firestore_closed,
                   listener_error, event_queue, events_queue,
                   events_to_process, lpc, event, emitted, appended,
                   dispatched, in_progress, joined>>
    /\ UNCHANGED purevars

\* events_to_process = event_queue[:], line 208
Copy ==
    /\ mpc = "copy"
    /\ events_to_process' = Batch(event_queue)
    /\ mpc' = "clear"
    /\ UNCHANGED <<handlers, default_handler, kommo_service,
                   love_bali_service, sessions, leads, rtdb, now, last,
                   kill_now, closed, kommo_closed, firestore_closed,
                   listener_error, event_lock, event_queue, events_queue,
                   lpc, event, emitted, appended, dispatched, in_progress,
                   joined>>
    /\ UNCHANGED purevars

\* event_queue.clear() and the end of the with block, line 209
Clear ==
    /\ mpc = "clear"
    /\ event_queue' = <<>>
    /\ event_lock' = "free"
    /\ mpc' = "for"
    /\ UNCHANGED <<handlers, default_handler, kommo_service,
                   love_bali_service, sessions, leads, rtdb, now, last,
                   kill_now, closed, kommo_closed, firestore_closed,
                   listener_error, events_queue, events_to_process, lpc,
                   event, emitted, appended, dispatched, in_progress, joined>>
    /\ UNCHANGED purevars

\* for event in events_to_process: the next event is passed to process_event,
\* lines 211-224
CallProcessEvent ==
    /\ mpc = "for"
    /\ events_to_process # <<>>
    /\ dispatched' = Append(dispatched, Head(events_to_process))
    /\ events_to_process' = Tail(events_to_process)
    /\ in_progress' = in_progress + 1
    /\ mpc' = AfterDispatch(Tail(events_to_process))
    /\ UNCHANGED <<handlers, default_handler, kommo_service,
                   love_bali_service, sessions, leads, rtdb, now, last,
                   kill_now, closed, kommo_closed, firestore_closed,
                   listener_error, event_lock, event_queue, events_queue,
                   lpc, event, emitted, appended, joined>>
    /\ UNCHANGED purevars

\* process_event returns, or raises into the except of line 225
ReturnProcessEvent ==
    /\ mpc = "process_event"
    /\ in_progress' = in_progress - 1
    /\ mpc' = "for"
    /\ UNCHANGED <<handlers, default_handler, kommo_service,
                   love_bali_service, sessions, leads, rtdb, now, last,
                   kill_now, closed, kommo_closed, firestore_closed,
                   listener_error, event_lock, event_queue, events_queue,
                   events_to_process, lpc, event, emitted, appended,
                   dispatched, joined>>
    /\ UNCHANGED purevars

\* the batch is exhausted
ForDone ==
    /\ mpc = "for"
    /\ events_to_process = <<>>
    /\ mpc' = "sleep"
    /\ UNCHANGED <<handlers, default_handler, kommo_service,
                   love_bali_service, sessions, leads, rtdb, now, last,
                   kill_now, closed, kommo_closed, firestore_closed,
                   listener_error, event_lock, event_queue, events_queue,
                   events_to_process, lpc, event, emitted, appended,
                   dispatched, in_progress, joined>>
    /\ UNCHANGED purevars

\* time.sleep(0.1), line 234
Sleep ==
    /\ mpc = "sleep"
    /\ mpc' = "while"
    /\ UNCHANGED <<handlers, default_handler, kommo_service,
                   love_bali_service, sessions, leads, rtdb, now, last,
                   kill_now, closed, kommo_closed, firestore_closed,
                   listener_error, event_lock, event_queue, events_queue,
                   events_to_process, lpc, event, emitted, appended,
                   dispatched, in_progress, joined>>
    /\ UNCHANGED purevars

\* lines 236-238: signal_services_stop() closes the three services and clears
\* the handlers
SignalServicesStop ==
    /\ mpc = "after_loop"
    /\ kill_now
    /\ kommo_closed' = TRUE
    /\ closed' = TRUE
    /\ firestore_closed' = TRUE
    /\ handlers' = clear_handlers(handlers, default_handler)[1]
    /\ default_handler' = clear_handlers(handlers, default_handler)[2]
    /\ mpc' = "join"
    /\ UNCHANGED <<kommo_service, love_bali_service, sessions, leads, rtdb,
                   now, last, kill_now, listener_error, event_lock,
                   event_queue, events_queue, events_to_process, lpc, event,
                   emitted, appended, dispatched, in_progress, joined>>
    /\ UNCHANGED purevars

\* line 236: the loop has ended because the listener thread has
LoopEnded ==
    /\ mpc = "after_loop"
    /\ ~kill_now
    /\ mpc' = "finally"
    /\ UNCHANGED <<handlers, default_handler, kommo_service,
                   love_bali_service, sessions, leads, rtdb, now, last,
                   kill_now, closed, kommo_closed, firestore_closed,
                   listener_error, event_lock, event_queue, events_queue,
                   events_to_process, lpc, event, emitted, appended,
                   dispatched, in_progress, joined>>
    /\ UNCHANGED purevars

\* thread.join(timeout=2.0), line 240
Join ==
    /\ mpc = "join"
    /\ JoinReturns(lpc)
    /\ joined' = IF lpc = "done" THEN "exited" ELSE "timeout"
    /\ mpc' = "finally"
    /\ UNCHANGED <<handlers, default_handler, kommo_service,
                   love_bali_service, sessions, leads, rtdb, now, last,
                   kill_now, closed, kommo_closed, firestore_closed,
                   listener_error, event_lock, event_queue, events_queue,
                   events_to_process, lpc, event, emitted, appended,
                   dispatched, in_progress>>
    /\ UNCHANGED purevars

\* the finally block, lines 244-251; run() returns
Finally ==
    /\ mpc = "finally"
    /\ kommo_closed' = TRUE
    /\ closed' = TRUE
    /\ firestore_closed' = TRUE
    /\ mpc' = "exit"
    /\ UNCHANGED <<handlers, default_handler, kommo_service,
                   love_bali_service, sessions, leads, rtdb, now, last,
                   kill_now, listener_error, event_lock, event_queue,
                   events_queue, events_to_process, lpc, event, emitted,
                   appended, dispatched, in_progress, joined>>
    /\ UNCHANGED purevars

\* SIGINT or SIGTERM: GracefulKiller.exit_gracefully, line 26
Signal ==
    /\ mpc # "exit"
    /\ ~kill_now
    /\ kill_now' = TRUE
    /\ UNCHANGED <<handlers, default_handler, kommo_service,
                   love_bali_service, sessions, leads, rtdb, now, last,
                   closed, kommo_closed, firestore_closed, listener_error,
                   event_lock, event_queue, events_queue, events_to_process,
                   mpc, lpc, event, emitted, appended, dispatched,
                   in_progress, joined>>
    /\ UNCHANGED purevars

\* events(): listen_for_changes(callback) has registered the listener
ListenStarted ==
    /\ lpc = "listen"
    /\ lpc' = "gen_while"
    /\ UNCHANGED <<handlers, default_handler, kommo_service,
                   love_bali_service, sessions, leads, rtdb, now, last,
                   kill_now, closed, kommo_closed, firestore_closed,
                   listener_error, event_lock, event_queue, events_queue,
                   events_to_process, mpc, event, emitted, appended,
                   dispatched, in_progress, joined>>
    /\ UNCHANGED purevars

\* events(): listen_for_changes raises; listener_thread records the exception,
\* lines 191-192, and ends
ListenFailed ==
    /\ lpc = "listen"
    /\ listener_error' = TRUE
    /\ lpc' = "done"
    /\ UNCHANGED <<handlers, default_handler, kommo_service,
                   love_bali_service, sessions, leads, rtdb, now, last,
                   kill_now, closed, kommo_closed, firestore_closed,
                   event_lock, event_queue, events_queue, events_to_process,
                   mpc, event, emitted, appended, dispatched, in_progress,
                   joined>>
    /\ UNCHANGED purevars

\* events(): while not self._closed.is_set() ends; the finally block closes
\* the listener, the for loop of listener_thread ends
GenClosed ==
    /\ lpc = "gen_while"
    /\ closed
    /\ lpc' = "done"
    /\ UNCHANGED <<handlers, default_handler, kommo_service,
                   love_bali_service, sessions, leads, rtdb, now, last,
                   kill_now, closed, kommo_closed, firestore_closed,
                   listener_error, event_lock, event_queue, events_queue,
                   events_to_process, mpc, event, emitted, appended,
                   dispatched, in_progress, joined>>
    /\ UNCHANGED purevars

\* events(): the loop goes on
GenPoll ==
    /\ lpc = "gen_while"
    /\ ~closed
    /\ lpc' = "gen_lock"
    /\ UNCHANGED <<handlers, default_handler, kommo_service,
                   love_bali_service, sessions, leads, rtdb, now, last,
                   kill_now, closed, kommo_closed, firestore_closed,
                   listener_error, event_lock, event_queue, events_queue,
                   events_to_process, mpc, event, emitted, appended,
                   dispatched, in_progress, joined>>
    /\ UNCHANGED purevars

\* The event is yielded and left in events_queue
GenYield_no_pop ==
    /\ lpc = "gen_lock"
    /\ events_queue # <<>>
    /\ event' = Head(events_queue)
    /\ lpc' = "append"
    /\ UNCHANGED <<handlers, default_handler, kommo_service,
                   love_bali_service, sessions, leads, rtdb, now, last,
                   kill_now, closed, kommo_closed, firestore_closed,
                   listener_error, event_lock, event_queue, events_queue,
                   events_to_process, mpc, emitted, appended, dispatched,
                   in_progress, joined>>
    /\ UNCHANGED purevars

\* events(): with events_lock, events_queue.pop(0) and yield
GenYield ==
    /\ lpc = "gen_lock"
    /\ events_queue # <<>>
    /\ event' = Head(events_queue)
    /\ events_queue' = Tail(events_queue)
    /\ lpc' = "append"
    /\ UNCHANGED <<handlers, default_handler, kommo_service,
                   love_bali_service, sessions, leads, rtdb, now, last,
                   kill_now, closed, kommo_closed, firestore_closed,
                   listener_error, event_lock, event_queue,
                   events_to_process, mpc, emitted, appended, dispatched,
                   in_progress, joined>>
    /\ UNCHANGED purevars

\* events(): nothing queued
GenEmpty ==
    /\ lpc = "gen_lock"
    /\ events_queue = <<>>
    /\ lpc' = "gen_sleep"
    /\ UNCHANGED <<handlers, default_handler, kommo_service,
                   love_bali_service, sessions, leads, rtdb, now, last,
                   kill_now, closed, kommo_closed, firestore_closed,
                   listener_error, event_lock, event_queue, events_queue,
                   events_to_process, mpc, event, emitted, appended,
                   dispatched, in_progress, joined>>
    /\ UNCHANGED purevars

\* events(): an exception between events_queue.pop(0) and the yield (the
\* print calls write to stdout, which may fail); the finally block of events()
\* closes the listener, listener_thread records the exception, lines 191-192,
\* and ends
GenFailed ==
    /\ lpc = "gen_lock"
    /\ events_queue # <<>>
    /\ events_queue' = Tail(events_queue)
    /\ closed' = TRUE
    /\ listener_error' = TRUE
    /\ lpc' = "done"
    /\ UNCHANGED <<handlers, default_handler, kommo_service,
                   love_bali_service, sessions, leads, rtdb, now, last,
                   kill_now, kommo_closed, firestore_closed, event_lock,
                   event_queue, events_to_process, mpc, event, emitted,
                   appended, dispatched, in_progress, joined>>
    /\ UNCHANGED purevars

\* listener_thread: with event_lock: event_queue.append(event), lines 187-188
AppendEvent ==
    /\ lpc = "append"
    /\ event_lock = "free"
    /\ event_queue' = Append(event_queue, event)
    /\ appended' = Append(appended, event)
    /\ lpc' = "check_kill"
    /\ UNCHANGED <<handlers, default_handler, kommo_service,
                   love_bali_service, sessions, leads, rtdb, now, last,
                   kill_now, closed, kommo_closed, firestore_closed,
                   listener_error, event_lock, events_queue,
                   events_to_process, mpc, event, emitted, dispatched,
                   in_progress, joined>>
    /\ UNCHANGED purevars

\* listener_thread: break, lines 189-190; the abandoned generator runs its
\* finally block when it is finalised, which may be later
Break ==
    /\ lpc = "check_kill"
    /\ kill_now
    /\ closed' \in {closed, TRUE}
    /\ lpc' = "done"
    /\ UNCHANGED <<handlers, default_handler, kommo_service,
                   love_bali_service, sessions, leads, rtdb, now, last,
                   kill_now, kommo_closed, firestore_closed, listener_error,
                   event_lock, event_queue, events_queue, events_to_process,
                   mpc, event, emitted, appended, dispatched, in_progress,
                   joined>>
    /\ UNCHANGED purevars

\* listener_thread asks the generator for the next event: the with block of
\* events() ends
Resume ==
    /\ lpc = "check_kill"
    /\ ~kill_now
    /\ lpc' = "gen_sleep"
    /\ UNCHANGED <<handlers, default_handler, kommo_service,
                   love_bali_service, sessions, leads, rtdb, now, last,
                   kill_now, closed, kommo_closed, firestore_closed,
                   listener_error, event_lock, event_queue, events_queue,
                   events_to_process, mpc, event, emitted, appended,
                   dispatched, in_progress, joined>>
    /\ UNCHANGED purevars

\* events(): time.sleep(0.1), line 204
GenSleep ==
    /\ lpc = "gen_sleep"
    /\ lpc' = "gen_while"
    /\ UNCHANGED <<handlers, default_handler, kommo_service,
                   love_bali_service, sessions, leads, rtdb, now, last,
                   kill_now, closed, kommo_closed, firestore_closed,
                   listener_error, event_lock, event_queue, events_queue,
                   events_to_process, mpc, event, emitted, appended,
                   dispatched, in_progress, joined>>
    /\ UNCHANGED purevars

\* events(): callback, called by the thread of the realtime-store client for
\* each change it reports
Callback ==
    /\ emitted < MaxEvents
    /\ lpc \notin {"new", "listen", "done"}
    /\ ~closed
    /\ ~HoldsEventsLock(lpc)
    /\ events_queue' = Append(events_queue, emitted + 1)
    /\ emitted' = emitted + 1
    /\ UNCHANGED <<handlers, default_handler, kommo_service,
                   love_bali_service, sessions, leads, rtdb, now, last,
                   kill_now, closed, kommo_closed, firestore_closed,
                   listener_error, event_lock, event_queue,
                   events_to_process, mpc, lpc, event, appended, dispatched,
                   in_progress, joined>>
    /\ UNCHANGED purevars


MainThread ==
    \/ StartThread \/ WhileTest \/ CheckError \/ AcquireLock \/ Copy \/ Clear
    \/ CallProcessEvent \/ ReturnProcessEvent \/ ForDone \/ Sleep
    \/ SignalServicesStop \/ LoopEnded \/ Join \/ Finally

ListenerThread ==
    \/ ListenStarted \/ ListenFailed \/ GenClosed \/ GenPoll \/ GenYield
    \/ GenEmpty \/ GenFailed \/ AppendEvent \/ Break \/ Resume \/ GenSleep

\* run() with the services and handlers it has wired
InitApp ==
    /\ handlers = RunWiring[1]
    /\ default_handler = RunWiring[2]
    /\ kommo_service = TRUE
    /\ love_bali_service = FALSE
    /\ InitStore
    /\ InitThreads
    /\ InitNoCall

NextApp == MainThread \/ ListenerThread \/ Callback \/ Signal

SpecApp == InitApp /\ [][NextApp]_vars

\* The main thread runs whenever it can: it is the thread of the process.
\* Nothing is assumed of the listener thread, a daemon thread that may be
\* blocked in the client of the realtime store.
SpecAppLive == InitApp /\ [][NextApp]_vars /\ WF_vars(MainThread)

----------------------------------------------------------------------------
(* C18: first in, first out *)

IsPrefix(s, t) == Len(s) <= Len(t) /\ \A i \in 1..Len(s) : s[i] = t[i]

\* C18: the events passed to process_event are, in that order, the first
\* events the listener thread appended to the queue, under any interleaving
\* of the listener thread and the main loop
Inv_C18 == IsPrefix(dispatched, appended)

\* Two events dispatched, the second in progress, a third one appended
Witness_C18 ==
    /\ Len(dispatched) >= 2
    /\ Len(appended) > Len(dispatched)
    /\ mpc = "process_event"

----------------------------------------------------------------------------
(* C19: one event at a time *)

\* C19: at most one process_event call is in progress, and while one is the
\* main thread is inside it: the next call begins after it has returned
Inv_C19 ==
    /\ in_progress \in {0, 1}
    /\ in_progress = 1 <=> mpc = "process_event"

\* A call in progress, the next event of the batch waiting, and the listener
\* thread about to append
Witness_C19 ==
    /\ in_progress = 1
    /\ events_to_process # <<>>
    /\ lpc = "append"

----------------------------------------------------------------------------
(* C20: shutdown *)

ServicesClosed == kommo_closed /\ closed /\ firestore_closed

PastLoop == mpc \in {"after_loop", "join", "finally", "exit"}

\* C20: once the shutdown flag is set run() terminates with the CRM, the
\* realtime-store and the document-database connection closed, whatever the
\* listener thread does; when run() has left the main loop no event is
\* dispatched any more, and the wait for the listener thread ends whether
\* the thread has ended or not
Inv_C20 ==
    /\ [](mpc = "exit" => ServicesClosed)
    /\ [][PastLoop => (PastLoop' /\ dispatched' = dispatched)]_vars
    /\ [](mpc = "join" => ENABLED Join)
    /\ (kill_now ~> (mpc = "exit" /\ ServicesClosed))

\* run() has returned after a shutdown signal, the join has timed out and
\* the listener thread has not ended
Witness_C20 ==
    /\ mpc = "exit"
    /\ kill_now
    /\ joined = "timeout"
    /\ IsAlive(lpc)
    /\ ServicesClosed

----------------------------------------------------------------------------
(* C21: the default designation *)

\* The default designation is unset or names one handler of the list
DefaultRegistered ==
    \/ default_handler = None
    \/ Len(default_handler) = 1 /\ Val(default_handler) \in Range(handlers)

\* C21: after any sequence of register_handler, unregister_handler and
\* clear_handlers calls the default designation is unset or names one
\* handler of the handler list; a default registration replaces the
\* designation, unregistering the default unsets it, and clear_handlers
\* empties the list and unsets it
Inv_C21 ==
    /\ []DefaultRegistered
    /\ [][\A h \in Stubs :
            RegisterHandler(h, TRUE) =>
                default_handler' = Some(h) /\ handlers' = Append(handlers, h)]_vars
    /\ [][\A h \in Stubs :
            RegisterHandler(h, FALSE) =>
                default_handler' = default_handler /\ handlers' = Append(handlers, h)]_vars
    /\ [][\A h \in Stubs :
            (UnregisterHandler(h) /\ default_handler = Some(h)) =>
                default_handler' = None]_vars
    /\ [][ClearHandlers => (handlers' = <<>> /\ default_handler' = None)]_vars

\* A second default registration has replaced the first, and a further
\* handler was registered after it
Witness_C21 ==
    /\ handlers = <<"StubA", "StubB", "StubA">>
    /\ default_handler = Some("StubB")

----------------------------------------------------------------------------
(* Functions called on their own: the arguments are drawn, the function is  *)
(* applied                                                                  *)

\* Language arguments, each with the language it stands for
LanguageInputs ==
    { [raw |-> None, means |-> "default"],
      [raw |-> Some(<<"E", "N">>), means |-> "EN"],
      [raw |-> Some(<<"I", "D">>), means |-> "ID"],
      [raw |-> Some(<<"e", "n">>), means |-> "EN"],
      [raw |-> Some(<<"i", "d">>), means |-> "ID"],
      [raw |-> Some(<<"I", "d">>), means |-> "ID"],
      [raw |-> Some(<<" ", "I", "D", " ">>), means |-> "ID"],
      [raw |-> Some(<<"e", "n", " ">>), means |-> "EN"],
      [raw |-> Some(<<"F", "R">>), means |-> "unknown"],
      [raw |-> Some(<<>>), means |-> "unknown"],
      [raw |-> Some(<<"I", " ", "D">>), means |-> "unknown"],
      [raw |-> Some(<<"I", "D", "N">>), means |-> "unknown"] }

\* Message keys: the registered ones and one that is not
KeyInputs ==
    {PASSPORT_PROMPT, PASSPORT_INVALID, PASSPORT_ERROR, PASSPORT_NOT_FOUND,
     PASSPORT_FOUND, "passport_expired"}

GetMessageCalls ==
    { [fn |-> "get_message", key |-> k, language |-> l.raw, means |-> l.means] :
        k \in KeyInputs, l \in LanguageInputs }

Rep(c, n) == [i \in 1..n |-> c]

\* Passport inputs: the lengths around both limits, lower case, separators,
\* padding, characters outside the alphabet, whitespace other than a space
PassportInputs ==
    { <<>>, <<" ", " ">>, <<"-">>,
      Rep("A", 5), Rep("A", 6), Rep("7", 12), Rep("Z", 13),
      Rep("a", 6), Rep("b", 12), Rep("c", 13),
      <<"a", "b", "-", "1", "2", " ", "3", "4">>,
      <<" ", "A", "B", "1", "2", "3", "4", " ">>,
      <<"a", "-", "1", "-", "b">>,
      Rep("A", 12) \o <<"-", "1">>,
      Rep("A", 5) \o <<"_">>,
      Rep("A", 5) \o <<" ", "-", " ">>,
      <<"A", "B", "\t", "1", "2", "3", "4">>,
      <<"-", "\t", "A", "B", "1", "2", "3", "4">>,
      <<"A", "B", "C", "1", "2", "3", "\n", "-">>,
      Rep("A", 12) \o <<"\n", "-">> }

IsValidCalls ==
    { [fn |-> "is_valid_passport_number", user_message |-> m] : m \in PassportInputs }

NormalizeCalls ==
    { [fn |-> "normalize_passport_number", user_message |-> m] : m \in PassportInputs }

\* Command members and their values (kommo_lang_select/types.py)
CommandMembers ==
    {"MAIN_MENU", "LANG_SELECT", "LOVE_BALI", "SIGAPURA", "CHAT_OPERATOR"}

Command_value(member) ==
    CASE member = "MAIN_MENU" -> MAIN_MENU
      [] member = "LANG_SELECT" -> LANG_SELECT
      [] member = "LOVE_BALI" -> LOVE_BALI
      [] member = "SIGAPURA" -> SIGAPURA
      [] member = "CHAT_OPERATOR" -> CHAT_OPERATOR

\* A command field holds a Command member or a str
Member(m) == [t |-> "Command", v |-> m]
Str(s) == [t |-> "str", v |-> s]

\* Command[name]: the lookup by member name, which Command(value) is not
Command_by_name(value) ==
    IF value \in CommandMembers THEN Returned(Member(value)) ELSE Raised

\* Command(value): the member with that value, ValueError when none has it
Command(value) ==
    IF \E m \in CommandMembers : Command_value(m) = value
    THEN Returned(Member(CHOOSE m \in CommandMembers : Command_value(m) = value))
    ELSE Raised

\* A datetime is its count of microseconds, in UTC, since the start of the
\* hour the inputs lie in
MicrosPerSecond == 1000000

\* datetime.timestamp(): seconds as a float, here whole seconds and
\* the fraction in microseconds
timestamp(d) == [whole |-> d \div MicrosPerSecond, micros |-> d % MicrosPerSecond]

\* datetime.fromtimestamp(t, tz=timezone.utc)
fromtimestamp(t) == t.whole * MicrosPerSecond + t.micros

\* SessionModel.to_firestore_dict: the dumped fields, the datetimes as they
\* are, a Command member replaced by its value
to_firestore_dict(session) ==
    [session EXCEPT
        !.command = IF @ # None /\ Val(@).t = "Command"
                    THEN Some(Str(Command_value(Val(@).v)))
                    ELSE @]

\* SessionModel.from_firestore_dict: each datetime that is set goes
\* through its timestamp, a command str becomes the member of that value (unset
\* when there is none); entity_id is an int here and stays
from_firestore_dict(data) ==
    LET stamp(f) == IF f # None THEN Some(fromtimestamp(timestamp(Val(f)))) ELSE f
        command ==
            IF data.command # None /\ Val(data.command).t = "str"
            THEN LET c == Command(Val(data.command).v)
                 IN IF c.raised THEN None ELSE Some(c.value)
            ELSE data.command
    IN [data EXCEPT !.created_at = stamp(@), !.updated_at = stamp(@),
                    !.expires_at = stamp(@), !.command = command]

\* Sessions: every command and none, a language or none, an expiry or none,
\* datetimes with and without a fraction of a second
ExpiryMinutes == 30

DatetimeInputs == {0, 1999999, 300000001}

SessionInputs ==
    { [session_id |-> "s1", entity_id |-> e, language |-> l, command |-> c,
       created_at |-> Some(t), updated_at |-> Some(u), expires_at |-> x,
       metadata |-> "{}", is_active |-> a] :
        e \in {None, Some(1)},
        l \in {None, Some(INDONESIAN)},
        c \in {None} \cup {Some(Member(m)) : m \in CommandMembers},
        t \in DatetimeInputs, u \in DatetimeInputs,
        x \in {None} \cup {Some(d + ExpiryMinutes * 60 * MicrosPerSecond) :
                               d \in DatetimeInputs},
        a \in BOOLEAN }

RoundTripCalls == {[fn |-> "round_trip", session |-> s] : s \in SessionInputs}

\* What self.session.request does in one attempt: a response with a status
\* code, requests.Timeout, or another RequestException
Attempts == {"200", "401", "404", "429", "500", "503", "timeout", "connection"}

MaxRetries == 2

\* KommoAPIService._make_request; responses[n]: what the n-th attempt meets.
\* The result: the exception raised, if any, and the attempts made
RECURSIVE make_request(_, _, _)
make_request(responses, max_retries, retry_count) ==
    LET response == responses[retry_count + 1]
        again == make_request(responses, max_retries, retry_count + 1)
        raise(e) == [raised |-> TRUE,
                     value |-> [error |-> e, attempts |-> retry_count + 1]]
    IN CASE response = "429" ->
              IF retry_count < max_retries THEN again
              ELSE raise("KommoRateLimitError")
         [] response = "401" -> raise("KommoAuthenticationError")
         [] response \in {"404", "500", "503"} -> raise("KommoAPIError")
         [] response \in {"timeout", "connection"} ->
              IF retry_count < max_retries THEN again
              ELSE raise("KommoAPIError")
         [] OTHER -> Returned([error |-> "", attempts |-> retry_count + 1])

MakeRequestCalls ==
    { [fn |-> "_make_request", max_retries |-> m, responses |-> r] :
        m \in 0..MaxRetries, r \in UNION { [1..(n + 1) -> Attempts] : n \in 0..MaxRetries } }

PureCalls ==
    GetMessageCalls \cup IsValidCalls \cup NormalizeCalls \cup RoundTripCalls
    \cup { c \in MakeRequestCalls : Len(c.responses) = c.max_retries + 1 }

InitPure ==
    /\ handlers = RunWiring[1]
    /\ default_handler = RunWiring[2]
    /\ kommo_service = TRUE
    /\ love_bali_service = FALSE
    /\ InitStore
    /\ InitThreads
    /\ call \in PureCalls
    /\ result = None

Unchanged == <<handlers, default_handler, kommo_service, love_bali_service,
               sessions, leads, rtdb, now, last, appvars>>

\* get_message(key, language)
GetMessage ==
    /\ call.fn = "get_message"
    /\ result = None
    /\ result' = Some(get_message_or_raise(call.key, call.language))
    /\ UNCHANGED <<call, Unchanged>>

\* is_valid_passport_number(user_message)
IsValidPassportNumber ==
    /\ call.fn = "is_valid_passport_number"
    /\ result = None
    /\ result' = Some(Returned(is_valid_passport_input(call.user_message)))
    /\ UNCHANGED <<call, Unchanged>>

\* normalize_passport_number(user_message), and the same again on what it
\* returned
NormalizePassportNumber ==
    /\ call.fn = "normalize_passport_number"
    /\ result = None
    /\ result' =
         LET once == normalize_passport_number(call.user_message)
         IN Some(Returned([once |-> once,
                           twice |-> IF once = None THEN None
                                     ELSE normalize_passport_number(Val(once))]))
    /\ UNCHANGED <<call, Unchanged>>

\* SessionModel.from_firestore_dict(session.to_firestore_dict())
RoundTrip ==
    /\ call.fn = "round_trip"
    /\ result = None
    /\ result' =
         LET data == to_firestore_dict(call.session)
         IN Some(Returned([data |-> data, session |-> from_firestore_dict(data)]))
    /\ UNCHANGED <<call, Unchanged>>

\* KommoAPIService._make_request(method, endpoint, ...), retry_count 0
MakeRequest ==
    /\ call.fn = "_make_request"
    /\ result = None
    /\ result' = Some(make_request(call.responses, call.max_retries, 0))
    /\ UNCHANGED <<call, Unchanged>>

NextPure ==
    \/ MakeRequest
    \/ GetMessage
    \/ IsValidPassportNumber
    \/ NormalizePassportNumber
    \/ RoundTrip

SpecPure == InitPure /\ [][NextPure]_vars

----------------------------------------------------------------------------
(* C22: get_message *)

\* C22: for a registered key get_message does not raise, whatever the
\* language value: it returns the text of the language the value stands for
\* (whatever its case and padding) when that is a language of the catalog,
\* and the English text otherwise; for an unregistered key it raises
Inv_C22 ==
    (call.fn = "get_message" /\ result # None) =>
        IF call.key \in CatalogKeys
        THEN /\ ~Val(result).raised
             /\ Val(result).value =
                  Text(call.key,
                       IF call.means = "ID" THEN INDONESIAN ELSE ENGLISH, FALSE)
        ELSE Val(result).raised

\* The padded, lower-case request for Indonesian, answered in Indonesian
Witness_C22 ==
    /\ call.fn = "get_message"
    /\ call.key = PASSPORT_NOT_FOUND
    /\ call.language = Some(<<" ", "I", "D", " ">>)
    /\ result = Some(Returned(Text(PASSPORT_NOT_FOUND, INDONESIAN, FALSE)))

----------------------------------------------------------------------------
(* C23: which passport inputs are accepted *)

\* 6 to 12 characters, each an uppercase letter or a digit
WellFormed(s) ==
    /\ Len(s) \in PassportMinLen..PassportMaxLen
    /\ \A i \in 1..Len(s) : s[i] \in Range(UpperChars) \cup Range(DigitChars)

\* The normalized form: trimmed, upper-cased, spaces and hyphens removed
NormalForm(m) == StrRemove(StrRemove(StrUpper(StrStrip(m)), " "), "-")

\* C23: a passport input is accepted iff its normalized form has 6 to 12
\* characters, each an uppercase letter or a digit
Claim_C23 ==
    (call.fn = "is_valid_passport_number" /\ result # None) =>
        (Val(result).value <=> WellFormed(NormalForm(call.user_message)))

\* The part of C23 the code keeps: the same, for an input without a newline
Inv_C23 ==
    ( /\ call.fn = "is_valid_passport_number"
      /\ result # None
      /\ "\n" \notin Range(call.user_message) ) =>
        (Val(result).value <=> WellFormed(NormalForm(call.user_message)))

\* A lower-case input with separators, accepted on its normalized form
Witness_C23 ==
    /\ call.fn = "is_valid_passport_number"
    /\ call.user_message = <<"a", "b", "-", "1", "2", " ", "3", "4">>
    /\ result = Some(Returned(TRUE))

----------------------------------------------------------------------------
(* C24: normalizing twice *)

\* C24: normalize_passport_number applied to a non-empty result of
\* normalize_passport_number returns the same string
Claim_C24 ==
    ( /\ call.fn = "normalize_passport_number"
      /\ result # None
      /\ Val(result).value.once # None ) =>
        Val(result).value.twice = Val(result).value.once

\* The part of C24 the code keeps: the same, for an input whose only
\* whitespace is the space
Inv_C24 ==
    ( /\ call.fn = "normalize_passport_number"
      /\ result # None
      /\ Val(result).value.once # None
      /\ Range(call.user_message) \cap {"\t", "\n"} = {} ) =>
        Val(result).value.twice = Val(result).value.once

\* A lower-case input with separators normalized twice
Witness_C24 ==
    /\ call.fn = "normalize_passport_number"
    /\ call.user_message = <<"a", "b", "-", "1", "2", " ", "3", "4">>
    /\ result # None
    /\ Val(result).value.twice = Some(<<"A", "B", "1", "2", "3", "4">>)

----------------------------------------------------------------------------
(* C25: the Session and its storage dictionary *)

\* C25: a Session turned into its storage dictionary and read back is an
\* equivalent Session: the same session_id, language, command and timestamps
\* (and the other fields), whichever of the commands it holds and also when
\* the language, the command or the expiry is unset; in the dictionary the
\* command is the str value of the member
Inv_C25 ==
    (call.fn = "round_trip" /\ result # None) =>
        LET s == call.session
            d == Val(result).value.data
            back == Val(result).value.session
        IN /\ back.session_id = s.session_id
           /\ back.language = s.language
           /\ back.command = s.command
           /\ back.created_at = s.created_at
           /\ back.updated_at = s.updated_at
           /\ back.expires_at = s.expires_at
           /\ back = s
           /\ s.command # None =>
                  d.command = Some(Str(Command_value(Val(s.command).v)))

Witness_C25 ==
    /\ call.fn = "round_trip" /\ result # None
    /\ call.session.command = Some(Member("SIGAPURA"))
    /\ call.session.language = None
    /\ call.session.expires_at = None
    /\ Val(call.session.created_at) % MicrosPerSecond # 0
    /\ Val(result).value.session.command = Some(Member("SIGAPURA"))

----------------------------------------------------------------------------
(* C26: a failure of the no-session bootstrap *)

\* The launch of the language-selection bot or the creation of the session
\* raised in the lead handler
BootstrapRaised(c) ==
    \/ IsLaunch(c, LeadHandler, LANG_SELECT_BOT_ID) /\ ~c.ok
    \/ IsCreate(c) /\ ~c.ok

\* C26: when the launch of the language-selection bot or the creation of the
\* session raises in the no-session bootstrap, the lead handler catches the
\* exception (its handle does not raise), the Lead it then saves carries
\* salesbot_launched = false and the text of the exception in its metadata,
\* and once that save has succeeded the deletion of the payload is requested
Inv_C26 ==
    last.valid =>
        \A i \in Idx :
            BootstrapRaised(Call(i)) =>
                /\ \A k \in Idx :
                      ~(Call(k).op = "handle_error" /\ Call(k).h = LeadHandler)
                /\ \E j \in Idx :
                      /\ j > i
                      /\ IsLeadSave(Call(j), LeadHandler)
                      /\ Call(j).doc.processed
                      /\ Call(j).doc.metadata.salesbot_launched = "false"
                      /\ Call(j).doc.metadata.salesbot_error = Some(Call(i).op)
                      /\ Call(j).doc.metadata.new_session_id = None
                      /\ Call(j).ok =>
                            \E k \in Idx :
                                /\ k > j
                                /\ IsDelete(Call(k), LeadHandler)
                                /\ Call(k).path = last.path

\* The creation of the session raised after the bot was launched; the Lead
\* was saved with the failure in its metadata and the deletion requested
Witness_C26 ==
    /\ last.valid
    /\ \E i, j, k \in Idx :
          /\ i < j /\ j < k
          /\ IsCreate(Call(i)) /\ ~Call(i).ok
          /\ IsLeadSave(Call(j), LeadHandler) /\ Call(j).ok
          /\ Call(j).doc.metadata.salesbot_error = Some("create_session")
          /\ IsDelete(Call(k), LeadHandler)

----------------------------------------------------------------------------
(* C27: which handle raises *)

MessageHandlerRaised ==
    \E i \in Idx : Call(i).op = "handle_error" /\ Call(i).h = MessageHandler

CommandPathRaised ==
    \E i \in Idx :
        /\ Call(i).h = LeadHandler
        /\ \/ Call(i).op = "update_lead_custom_fields" /\ Call(i).res = "raise"
           \/ IsLaunch(Call(i), LeadHandler, REPLY_CUSTOM_BOT_ID) /\ ~Call(i).ok

HandleCalled(h) == \E i \in Idx : Call(i).op = "handle" /\ Call(i).h = h

----------------------------------------------------------------------------
(* C28: payloads that are no dict, and the empty dict *)

\* None, a value that is no dict (a string, a number, a list), or {}
Shapeless(data) == ~IsDict(data) \/ IsEmptyDict(data)

\* C28 (as stated): on a payload that is no dict, or is the empty dict,
\* can_handle of either handler returns false and handle of either handler,
\* called as the default handler, does not raise
Claim_C28 ==
    (last.valid /\ Shapeless(last.data)) =>
        /\ \A i \in Idx : Call(i).op = "can_handle" => Call(i).res = "false"
        /\ \A i \in Idx : Call(i).op # "handle_error"

----------------------------------------------------------------------------
(* C29: a passport lookup that fails *)

\* The lookup of the message handler failed: a LoveBaliAPIError with status
\* 401 or 404, or any other failure
LookupFailed(codes) ==
    /\ last.valid
    /\ \E i \in Idx : IsScan(Call(i)) /\ Call(i).h = MessageHandler
                                      /\ Call(i).res \in codes

AuthOrNotFound == {"api401", "api404"}
OtherFailures == ScanOutcomes \ ({"found"} \cup AuthOrNotFound)

NoUpdateNoMenu ==
    /\ \A i \in Idx : ~(Call(i).op = "update_session" /\ Call(i).h = MessageHandler)
    /\ \A i \in Idx :
          IsMessageLaunch(Call(i)) =>
              Call(i).bot_id \notin {MAIN_MENU_EN_BOT_ID, MAIN_MENU_ID_BOT_ID}

\* C29 (as stated): after a lookup that failed with status 401 or 404 the
\* localized not-found message is sent, after any other failure the
\* localized generic error message; no session update and no main-menu
\* launch follow
Claim_C29 ==
    /\ LookupFailed(AuthOrNotFound) =>
          SendsExactly(PASSPORT_NOT_FOUND) /\ NoUpdateNoMenu
    /\ LookupFailed(OtherFailures) =>
          SendsExactly(PASSPORT_ERROR) /\ NoUpdateNoMenu

\* C29, amended: after a lookup that failed, no session update and no
\* main-menu launch follow; a handler with a CRM service sends exactly one
\* message, after the lookup: the localized not-found message for status 401
\* or 404, the localized generic error message for any other failure; a
\* handler without a CRM service sends nothing
Inv_C29 ==
    /\ LookupFailed(AuthOrNotFound \cup OtherFailures) =>
          /\ NoUpdateNoMenu
          /\ \A i, j \in Idx :
                (IsScan(Call(i)) /\ IsMessageUpdate(Call(j))) => i < j
          /\ ~kommo_service =>
                \A i \in Idx : ~IsMessageUpdate(Call(i)) /\ ~IsMessageLaunch(Call(i))
    /\ (kommo_service /\ LookupFailed(AuthOrNotFound)) =>
          SendsExactly(PASSPORT_NOT_FOUND)
    /\ (kommo_service /\ LookupFailed(OtherFailures)) =>
          SendsExactly(PASSPORT_ERROR)

\* A lookup answered 404, the not-found message sent in Indonesian
Witness_C29 ==
    /\ kommo_service
    /\ LookupFailed({"api404"})
    /\ UserLang = INDONESIAN
    /\ \E j \in Idx : SendsAt(j, PASSPORT_NOT_FOUND)

----------------------------------------------------------------------------
(* C30: send_message *)

\* The message handler has called send_message: for the prompt in state
\* INITIAL, for the invalid-format message, or for the answer to a lookup
SendMessageCalled ==
    /\ EntityTruthy(EntityIdOf(last.data))
    /\ \/ MessageEvent(INITIAL)
       \/ MessageEvent(AWAITING_PASSPORT_NUMBER) /\ InvalidInput
       \/ MessageEvent(AWAITING_PASSPORT_NUMBER)
            /\ \E i \in Idx : IsScan(Call(i)) /\ Call(i).h = MessageHandler

\* Call(j) is the one custom-field update and Call(j + 1) the one reply-bot
\* launch of the message handler
UpdateThenLaunchOnce(j) ==
    /\ IsMessageUpdate(Call(j))
    /\ j < Len(last.calls)
    /\ IsLaunch(Call(j + 1), MessageHandler, REPLY_CUSTOM_BOT_ID)
    /\ Call(j + 1).entity_id = Call(j).entity_id
    /\ \A k \in Idx : IsMessageUpdate(Call(k)) => k = j
    /\ \A k \in Idx : IsMessageLaunch(Call(k)) => k = j + 1

\* C30 (as stated): a call of send_message makes the custom-field update and
\* then the reply-bot launch, each once, the launch also after an update
\* that raised, and does not raise
Claim_C30 ==
    SendMessageCalled =>
        /\ \E j \in Idx : UpdateThenLaunchOnce(j)
        /\ ~MessageHandlerRaised

\* C30, amended: a call of send_message on a handler with a CRM service
\* makes the custom-field update and then the reply-bot launch, each once,
\* the launch also after an update that raised or returned nothing; on a
\* handler without a CRM service it makes neither call; it never raises:
\* the handler goes on to the deletion of the payload
Inv_C30 ==
    SendMessageCalled =>
        /\ kommo_service => \E j \in Idx : UpdateThenLaunchOnce(j)
        /\ ~kommo_service =>
              \A i \in Idx : ~IsMessageUpdate(Call(i)) /\ ~IsMessageLaunch(Call(i))
        /\ ~MessageHandlerRaised
        /\ \E d \in Idx :
              /\ IsDelete(Call(d), MessageHandler)
              /\ \A i \in Idx :
                    (IsMessageUpdate(Call(i)) \/ IsMessageLaunch(Call(i))) => i < d

\* The update raised and the launch followed
Witness_C30 ==
    /\ SendMessageCalled
    /\ \E j \in Idx :
          /\ UpdateThenLaunchOnce(j)
          /\ Call(j).res = "raise"
          /\ Call(j + 1).ok

----------------------------------------------------------------------------
(* C31: the main-menu bot of the message handler *)

IsMainMenuLaunch(c) ==
    /\ IsMessageLaunch(c)
    /\ c.bot_id \in {MAIN_MENU_EN_BOT_ID, MAIN_MENU_ID_BOT_ID}

----------------------------------------------------------------------------
(* The session lookup on stores of several sessions *)

MaxStored == 3

\* Stored session documents at time TickHours: of two entities, active or
\* not, expired (expires_at 0), at the instant of expiry, unexpired or
\* without expiry, updated at 0 or at TickHours
StoredDoc(e, a, x, u) ==
    [entity_id |-> Some(e), language |-> None, command |-> Some(MAIN_MENU),
     created_at |-> 0, updated_at |-> u, expires_at |-> x, is_active |-> a]

AnyDocs ==
    { StoredDoc(e, a, x, u) :
        e \in {1, 2}, a \in BOOLEAN,
        x \in {None, Some(0), Some(TickHours), Some(2 * TickHours)},
        u \in {0, TickHours} }

\* The documents of the larger stores: one entity, expired or not
SomeDocs ==
    { StoredDoc(1, a, x, u) :
        a \in BOOLEAN, x \in {Some(0), Some(2 * TickHours)}, u \in {0, TickHours} }

StoreInputs ==
    UNION { [1..n -> IF n <= 2 THEN AnyDocs ELSE SomeDocs] : n \in 0..MaxStored }

InitLookup ==
    /\ handlers = RunWiring[1]
    /\ default_handler = RunWiring[2]
    /\ kommo_service = TRUE
    /\ love_bali_service = FALSE
    /\ sessions \in StoreInputs
    /\ leads = 0
    /\ rtdb = {}
    /\ now = TickHours
    /\ last = NoEvent
    /\ InitThreads
    /\ InitNoCall

\* FirestoreService.get_latest_session_by_entity_id(entity_id) called on the
\* store; call keeps the store the call found
LatestSessionLookup(entity_id) ==
    /\ \E x \in get_latest_session_by_entity_id(
                    [StartWorld(StubPath, NullPayload) EXCEPT !.rtdb = rtdb],
                    LeadHandler, entity_id) :
          /\ sessions' = x.sessions
          /\ result' = Some(IF x.exc THEN Raised ELSE Returned(x.ret))
    /\ call' = [fn |-> "get_latest_session_by_entity_id", entity_id |-> entity_id,
                store |-> sessions]
    /\ UNCHANGED <<handlers, default_handler, kommo_service, love_bali_service,
                   leads, rtdb, now, last>>
    /\ UNCHANGED appvars

NextLookup == \E entity_id \in {1, 2} : LatestSessionLookup(entity_id)

SpecLookup == InitLookup /\ [][NextLookup]_vars

----------------------------------------------------------------------------
(* C32: the latest session of an entity *)

\* The sessions of the entity that store ss holds active and unexpired
Candidates(ss, entity_id) ==
    { sid \in DOMAIN ss :
        /\ ss[sid].entity_id = Some(entity_id)
        /\ ss[sid].is_active
        /\ ~is_expired(ss[sid], now) }

LookupReturned ==
    /\ call.fn = "get_latest_session_by_entity_id"
    /\ result # None
    /\ ~Val(result).raised

\* C32: get_latest_session_by_entity_id, when it returns, returns none if
\* the store holds no active unexpired session of the entity, and otherwise
\* one of these sessions, as stored, than which none of them has a greater
\* updated_at; an inactive or expired session is never returned
Inv_C32 ==
    LookupReturned =>
        LET cands == Candidates(call.store, call.entity_id)
            found == Val(result).value
        IN IF cands = {} THEN found = None
           ELSE /\ found # None
                /\ Val(found).session_id \in cands
                /\ Val(found).doc = call.store[Val(found).session_id]
                /\ \A sid \in cands :
                      call.store[sid].updated_at <= Val(found).doc.updated_at

\* Three sessions of the entity: the first updated earlier, the second
\* later, the third later too but expired; the second is returned
Witness_C32 ==
    /\ LookupReturned
    /\ DOMAIN call.store = 1..3
    /\ Candidates(call.store, call.entity_id) = {1, 2}
    /\ call.store[1].updated_at < call.store[2].updated_at
    /\ call.store[3].updated_at = call.store[2].updated_at
    /\ call.store[3].is_active
    /\ Val(Val(result).value).session_id = 2

----------------------------------------------------------------------------
(* C33: sessions past their expiry *)

\* The event dispatched in this step held a session lookup of the lead
\* handler that returned: every session of that entity that was stored
\* active and expired before the event is stored inactive after it
LookupDeactivates ==
    \A i \in DOMAIN last'.calls :
        LET c == last'.calls[i]
        IN (c.op = "get_latest_session_by_entity_id" /\ c.ok) =>
              \A sid \in DOMAIN sessions :
                  ( /\ sessions[sid].entity_id = Some(c.entity_id)
                    /\ sessions[sid].is_active
                    /\ is_expired(sessions[sid], now) )
                      => /\ sid \in DOMAIN sessions'
                         /\ ~sessions'[sid].is_active
                         /\ sessions'[sid].expires_at = sessions[sid].expires_at

\* C33: no step removes a session from the store, expired or not; an
\* active session whose expiry has passed is marked inactive, and kept, by
\* the first event whose session lookup for its entity returns
Inv_C33 ==
    [][ /\ DOMAIN sessions \subseteq DOMAIN sessions'
        /\ (~last.valid /\ last'.valid) => LookupDeactivates ]_vars

\* After an event past the expiry of a session: the lookup has written
\* is_active false and the session is in the store, inactive
Witness_C33 ==
    /\ last.valid
    /\ \E i, j \in Idx :
          /\ i < j
          /\ Call(i).op = "update_session" /\ Call(i).h = LeadHandler
          /\ Call(i).req.is_active = Some(FALSE)
          /\ Call(i).res = "updated"
          /\ Call(j).op = "get_latest_session_by_entity_id" /\ Call(j).ok
          /\ Call(i).session_id \in DOMAIN sessions
          /\ ~sessions[Call(i).session_id].is_active
          /\ is_expired(sessions[Call(i).session_id], now)

----------------------------------------------------------------------------
(* C34: the queue between the two threads *)

\* No event occurs twice in s
NoDuplicates(s) == \A i, j \in DOMAIN s : s[i] = s[j] => i = j

\* C34: under any interleaving of the listener thread and the main loop the
\* events appended so far are, in order and each once, the events passed to
\* process_event, the events of the batch at hand and the events still in
\* the queue; between the copy and the clear the main loop holds the mutex
\* and the queue is the batch just copied, so the clear loses no event and
\* leaves none to be copied again
Inv_C34 ==
    /\ NoDuplicates(appended)
    /\ NoDuplicates(dispatched)
    /\ event_lock = "main" <=> mpc \in {"copy", "clear"}
    /\ mpc = "clear" =>
          /\ events_to_process = event_queue
          /\ appended = dispatched \o events_to_process
    /\ mpc # "clear" =>
          appended = dispatched \o events_to_process \o event_queue

\* The batch is copied and not yet cleared while the listener thread waits
\* for the mutex with the next event; an earlier batch has been dispatched
Witness_C34 ==
    /\ mpc = "clear"
    /\ lpc = "append"
    /\ event_queue # <<>>
    /\ dispatched # <<>>

----------------------------------------------------------------------------
(* C35: the retries of a CRM request *)

Transient == {"429", "500", "503", "timeout"}

\* C35 (as stated): a CRM request makes another attempt after a timeout, a
\* rate-limit response (429) or a 5xx response as long as fewer than
\* max_retries + 1 attempts have been made, never makes more attempts than
\* that, and raises when the last of them has failed in such a way too
Claim_C35 ==
    (call.fn = "_make_request" /\ result # None) =>
        LET r == Val(result)
            n == r.value.attempts
        IN /\ n <= call.max_retries + 1
           /\ call.responses[n] \in Transient =>
                 /\ n = call.max_retries + 1
                 /\ r.raised

----------------------------------------------------------------------------
(* C36: the events left in the queue *)

\* C36 (as stated): every event the listener thread has appended to the
\* queue is eventually passed to process_event unless a shutdown signal is
\* raised, also when the listener thread ends or reports an error: when run()
\* has returned and no signal was raised, the events appended have all been
\* passed to process_event
Claim_C36 ==
    (mpc = "exit" /\ ~kill_now) => dispatched = appended

----------------------------------------------------------------------------
(* C37: the generator of events() *)

\* The events the subscription callback has been given, in delivery order
Delivered == [i \in 1..emitted |-> i]

\* The events the generator has yielded: the consumer appends each one to the
\* application's queue before it asks for the next
Yielded == IF lpc = "append" THEN Append(appended, event) ELSE appended

\* Whoever holds a lock can take a step, or waits for a lock whose holder can:
\* the main loop holds the application's lock and waits for nothing; the
\* consumer, with the generator suspended inside 'with events_lock', waits at
\* most for the main loop; the callback waits at most for the generator
NoDeadlock ==
    /\ event_lock = "main" => ENABLED (Copy \/ Clear)
    /\ lpc = "append" => (event_lock = "main" \/ ENABLED AppendEvent)
    /\ lpc = "check_kill" => ENABLED (Break \/ Resume)
    /\ lpc \in {"gen_while", "gen_lock", "gen_sleep"} => ENABLED ListenerThread

\* C37 (as stated): when the generator ends because the listener is closed,
\* every event delivered to the callback before has been yielded; the events
\* yielded are yielded once and in delivery order, and no thread deadlocks
Claim_C37 ==
    /\ [](IsPrefix(Yielded, Delivered) /\ NoDeadlock)
    /\ [][GenClosed => Yielded = Delivered]_vars

\* C37 (amended): the events yielded are the first events delivered to the
\* callback, each once and in delivery order; until the generator ends the
\* events delivered and not yet yielded are in its queue, and the events in
\* the queue when the listener is closed are never yielded; the callback
\* thread, the generator and its consumer never deadlock
Inv_C37 ==
    /\ [](IsPrefix(Yielded, Delivered) /\ NoDeadlock)
    /\ [](lpc # "done" => Yielded \o events_queue = Delivered)
    /\ [][lpc = "done" => Yielded' = Yielded]_vars

\* The generator is suspended at its yield holding events_lock, the consumer
\* waits for the application's lock, which the main loop holds, an event
\* delivered earlier is in the generator's queue and the callback has another
\* one to deliver
Witness_C37 ==
    /\ lpc = "append"
    /\ event_lock = "main"
    /\ events_queue # <<>>
    /\ emitted < MaxEvents

----------------------------------------------------------------------------
(* C38: one live session per entity *)

\* The stored sessions of the entity that are active and not expired
LiveSessions(entity_id) ==
    { sid \in DOMAIN sessions :
        /\ sessions[sid].entity_id = Some(entity_id)
        /\ sessions[sid].is_active
        /\ ~is_expired(sessions[sid], now) }

IsLeadLookup(c) ==
    c.op = "get_latest_session_by_entity_id" /\ c.h = LeadHandler

\* C38: at any time at most one active, unexpired session is stored per
\* entity; the lead handler creates a session for an entity only in an event
\* whose lookup for that entity has returned no session before, and in no
\* event whose lookup raised
Inv_C38 ==
    /\ \A sid \in DOMAIN sessions :
          Cardinality(LiveSessions(Val(sessions[sid].entity_id))) <= 1
    /\ last.valid =>
          /\ \A j \in Idx :
                IsCreate(Call(j)) =>
                  \E i \in 1..(j - 1) :
                     /\ IsLeadLookup(Call(i))
                     /\ Call(i).ok
                     /\ Call(i).found = None
                     /\ Some(Call(i).entity_id) = Call(j).doc.entity_id
          /\ (\E i \in Idx : IsLeadLookup(Call(i)) /\ ~Call(i).ok) =>
                \A j \in Idx : ~IsCreate(Call(j))

\* A second session of an entity created after the lookup of the event has
\* deactivated the first, expired one
Witness_C38 ==
    /\ last.valid
    /\ \E j \in Idx : IsCreate(Call(j)) /\ Call(j).ok
    /\ \E s, t \in DOMAIN sessions :
          /\ s # t
          /\ sessions[s].entity_id = sessions[t].entity_id
          /\ ~sessions[s].is_active
          /\ LiveSessions(Val(sessions[t].entity_id)) = {t}

----------------------------------------------------------------------------
(* C39: no session without a launch *)

IsLangLaunch(c) == IsLaunch(c, LeadHandler, LANG_SELECT_BOT_ID)

\* The lead handler creates a session only after a launch of the
\* language-selection bot for the entity has returned in the same event
CreateFollowsLaunch ==
    last.valid =>
        \A k \in Idx :
            IsCreate(Call(k)) =>
                \E j \in 1..(k - 1) :
                    /\ IsLangLaunch(Call(j))
                    /\ Call(j).ok
                    /\ Some(Call(j).entity_id) = Call(k).doc.entity_id

\* C39 (as stated): a session is created only after the language-selection
\* bot launch of the same event has returned; when the launch raised or no
\* CRM service is configured no session is created, and the next event the
\* lead handler looks the entity up in attempts the launch
Claim_C39 ==
    /\ CreateFollowsLaunch
    /\ (last.valid /\ last.retry) =>
          \A i \in Idx :
              IsLeadLookup(Call(i)) =>
                  \E j \in Idx : IsLangLaunch(Call(j)) /\ Call(j).entity_id = Call(i).entity_id

\* C39 (amended): a session is created only after the language-selection
\* bot launch of the same event has returned; when the launch raised or no
\* CRM service is configured no session is created, and the lookup of the
\* next event of the entity, if it returns, finds no session again: the
\* launch is then attempted again when a CRM service is configured, and not
\* attempted without one
Inv_C39 ==
    /\ CreateFollowsLaunch
    /\ (~last.valid /\ last.retry) => \A sid \in DOMAIN sessions :
                                          LiveSessions(Val(sessions[sid].entity_id)) = {}
    /\ (last.valid /\ last.retry) =>
          \A i \in Idx :
              (IsLeadLookup(Call(i)) /\ Call(i).ok) =>
                  /\ Call(i).found = None
                  /\ kommo_service <=>
                        \E j \in Idx :
                            /\ j > i
                            /\ IsLangLaunch(Call(j))
                            /\ Call(j).entity_id = Call(i).entity_id

\* The launch of the event before did not return; in this event the lookup
\* finds no session, the launch returns and the session is stored
Witness_C39 ==
    /\ last.valid
    /\ last.retry
    /\ kommo_service
    /\ \E i, j, k \in Idx :
          /\ i < j /\ j < k
          /\ LookupFoundNone(Call(i))
          /\ IsLangLaunch(Call(j)) /\ Call(j).ok
          /\ IsCreate(Call(k)) /\ Call(k).ok
          /\ Call(k).session_id \in DOMAIN sessions

----------------------------------------------------------------------------
(* C40: the language of a session is set once *)

HasLanguage(doc) == doc.language # None /\ Val(doc.language) # ""

\* C40: a session stored with a non-empty language keeps that language
\* through every event the handlers process, whatever its message, and
\* through every other step
Inv_C40 ==
    [][ \A sid \in DOMAIN sessions :
          HasLanguage(sessions[sid]) =>
              /\ sid \in DOMAIN sessions'
              /\ sessions'[sid].language = sessions[sid].language ]_vars

\* A language-selector message for the other language has been processed by
\* the lead handler, whose lookup found the session with its language set
Witness_C40 ==
    /\ last.valid
    /\ MessagesOf(last.data) \in {SelectorBahasa, SelectorEnglish}
    /\ \E i \in Idx :
          /\ IsLeadLookup(Call(i))
          /\ Call(i).ok
          /\ Call(i).found # None
          /\ LET s == Val(Call(i).found)
             IN /\ HasLanguage(s.doc)
                /\ s.doc.language # detect_language(MessagesOf(last.data))
                /\ sessions[s.session_id].language = s.doc.language

====
